---- MODULE Spec2Model ----
(***************************************************************************)
(* A model of agol2mysql: the identifier sanitizer and the schema          *)
(* comparator of a2database.py, the schema translator and the DDL executor *)
(* of create_db.py, and the row loaders of data_xfer_excel.py and          *)
(* populate_from_excel.py.                                                 *)
(*                                                                         *)
(* Python strings that the code edits character by character are          *)
(* sequences of one-character strings; None is the model value None.       *)
(***************************************************************************)
EXTENDS Integers, Sequences, FiniteSets, TLC

\* The longest identifier handed to the sanitizer.
MaxStrLen == 3

\* Python's None where a string (a character sequence) may stand, and where a
\* number may stand: comparable with every string, respectively number.
None == <<"None">>
NoneInt == 0 - 1
\* The call raised (int() of a non-number, a method of None).
RaiseInt == 0 - 2

VARIABLES
    \* the sanitizer called on its own
    string,        \* the argument of _sqlstr / sqlstr
    replacement,   \* the replacement argument of sqlstr, or None
    ret_str,       \* the returned string
    san_pc,        \* "start", then "_sqlstr" or "sqlstr": the function called
    \* the comparator called on its own
    col_info,      \* the column definitions handed to table_cols_match
    db_cols,       \* the rows of its catalog query, in catalog order
    altered,       \* what was altered in the live table: <<kind, column>>...
    tcm_ret,       \* "none", or what table_cols_match did: "true", "false", "raise"
    \* find_matching_index called on its own
    stat_rows,           \* the (index_name, column_name) rows of its catalog query
    index_column_names,  \* the set of column names to match
    fmi_ret,             \* <<>>, or <<r>> for the returned index name or None
    \* update_database run against a database
    schema,        \* the translated layers: each its tables, indexes, values
    opts,          \* the options of the run: force, readonly, noviews
    db,            \* the database: tables, fks, views, indexes, data
    runs,          \* the number of runs started
    run_status,    \* "idle", "running", "done", "exit200", "exit250"
    pc,            \* where update_database is: [s, phase, t]
    call,          \* what the last handler was called on and what it found
    log,           \* the statements the last handler executed, in order
    logger,        \* the messages the last handler logged
    touched,       \* the database was altered from outside since the last run
    \* the translation pass of create_update_database
    schema_data,       \* the schema file: its layers and tables arrays, if present
    cud_relationships, \* relationships: the accumulator of origin relationships
    cud_layers,        \* layers: the layers translated so far
    cud_tables,        \* tables: the tables translated so far
    cud_status,        \* "idle", "translating", "update_database", or the exception
    cud_schema,        \* what update_database was called with
    \* a row loader run on one sheet or feature query
    ld_opts,             \* the options: the loader, force, reset, the EPSG codes
    ld_conn,             \* the connection: the table, its constraints, its epsg
    ld_rows,             \* the data rows, in order
    ld_worksheets,       \* the number of worksheets of the workbook
    ld_sheet,            \* the worksheet (or table) being loaded
    ld_pos,              \* the row the loop is at
    ld_geom_col_info,    \* geom_col_info: what get_col_info found for the sheet
    saved_constraints,   \* the constraints dropped for the reset
    skipped_rows,        \* the tally of the rows not written
    added_updated_rows,  \* the tally of the rows written
    ld_log,              \* the statements executed: [stmt, sheet, row, cons]
    ld_status,           \* "idle", "start", "rows", "loaded", "committed", or the exception
    \* one call of a function of the loaders or of the reconciler
    fn_name,             \* the function called, "" before the call
    fn_args,             \* its arguments
    fn_ret               \* what it returned or raised

sanVars == <<string, replacement, ret_str, san_pc>>
colsVars == <<col_info, db_cols, altered, tcm_ret>>
idxVars == <<stat_rows, index_column_names, fmi_ret>>
ddlVars == <<schema, opts, db, runs, run_status, pc, call, log, logger, touched>>
trVars == <<schema_data, cud_relationships, cud_layers, cud_tables, cud_status, cud_schema>>
rowVars == <<ld_opts, ld_conn, ld_rows, ld_worksheets, ld_sheet, ld_pos,
             ld_geom_col_info, saved_constraints,
             skipped_rows, added_updated_rows, ld_log, ld_status>>

fnVars == <<fn_name, fn_args, fn_ret>>

vars == <<sanVars, colsVars, idxVars, ddlVars, trVars, rowVars, fnVars>>

\* what each component's actions leave alone
notSan == <<colsVars, idxVars, ddlVars, trVars, rowVars, fnVars>>
notCols == <<sanVars, idxVars, ddlVars, trVars, rowVars, fnVars>>
notIdx == <<sanVars, colsVars, ddlVars, trVars, rowVars, fnVars>>
notDDL == <<sanVars, colsVars, idxVars, trVars, rowVars, fnVars>>
notTr == <<sanVars, colsVars, idxVars, ddlVars, rowVars, fnVars>>
notRows == <<sanVars, colsVars, idxVars, ddlVars, trVars, fnVars>>
notFn == <<sanVars, colsVars, idxVars, ddlVars, trVars, rowVars>>

----------------------------------------------------------------------------
(* a2database.py: A2Database._restricted_chars, _sqlstr, sqlstr            *)

_restricted_chars_no_star == <<";", "(", ")", "\"", "'", "%">>

_restricted_chars == <<";", "(", ")", "\"", "'", "%", "*">>

\* str.replace(old, new) for a one-character old: every occurrence, left to
\* right; new is a (possibly empty) string.
RECURSIVE str_replace(_, _, _)
str_replace(s, old, new) ==
    IF s = <<>> THEN <<>>
    ELSE (IF Head(s) = old THEN new ELSE <<Head(s)>>)
             \o str_replace(Tail(s), old, new)

\* for one_char in _restricted_chars: ret_str = ret_str.replace(one_char, r)
RECURSIVE replace_each(_, _, _)
replace_each(s, chars, r) ==
    IF chars = <<>> THEN s
    ELSE replace_each(str_replace(s, Head(chars), r), Tail(chars), r)

_sqlstr(s) == replace_each(s, _restricted_chars, <<>>)

sqlstr(s, r) ==
    LET repl == IF r = None THEN <<>> ELSE _sqlstr(r)
    IN  replace_each(s, _restricted_chars, repl)

\* The characters identifiers are drawn from: the restricted ones and three
\* others.
Alphabet == {";", "(", ")", "\"", "'", "%", "*", "a", "_", " "}

RECURSIVE StringsUpTo(_)
StringsUpTo(n) ==
    IF n = 0 THEN {<<>>}
    ELSE LET shorter == StringsUpTo(n - 1)
         IN  shorter \cup {Append(s, c) : s \in {t \in shorter : Len(t) = n - 1},
                                          c \in Alphabet}

Replacements == {None, <<>>, <<"_">>, <<";">>, <<"_", "*">>}

SanInit ==
    /\ string \in StringsUpTo(MaxStrLen)
    /\ replacement \in Replacements
    /\ ret_str = <<>>
    /\ san_pc = "start"

SanIdle ==
    /\ string = <<>>
    /\ replacement = None
    /\ ret_str = <<>>
    /\ san_pc = "idle"

Call_sqlstr ==
    /\ san_pc = "start"
    /\ ret_str' = _sqlstr(string)
    /\ san_pc' = "_sqlstr"
    /\ UNCHANGED <<string, replacement, notSan>>

CallSqlstr ==
    /\ san_pc = "start"
    /\ ret_str' = sqlstr(string, replacement)
    /\ san_pc' = "sqlstr"
    /\ UNCHANGED <<string, replacement, notSan>>

----------------------------------------------------------------------------
(* a2database.py: _same_type_and_len, _cols_match, table_cols_match        *)
(*                                                                         *)
(* A column type ('VARCHAR(256)') and a catalog data_type ('varchar') are  *)
(* character sequences; the tri-state results are "true", "false" and      *)
(* "raise" (the Python call raised instead of returning).                  *)

\* The key is not in the dict (where a string or a flag may stand).
Absent == <<"Absent">>

Lower == [c \in {"A","C","D","E","H","I","L","M","N","O","P","R","T","U","V","X"} |->
             CASE c = "A" -> "a" [] c = "C" -> "c" [] c = "D" -> "d" [] c = "E" -> "e"
               [] c = "H" -> "h" [] c = "I" -> "i" [] c = "L" -> "l" [] c = "M" -> "m"
               [] c = "N" -> "n" [] c = "O" -> "o" [] c = "P" -> "p" [] c = "R" -> "r"
               [] c = "T" -> "t" [] c = "U" -> "u" [] c = "V" -> "v" [] c = "X" -> "x"]

\* str.casefold() / str.lower() on the ASCII strings of the model
casefold(s) == [i \in 1..Len(s) |-> IF s[i] \in DOMAIN Lower THEN Lower[s[i]] ELSE s[i]]

\* the position of the first ch in s, or 0
RECURSIVE find_char(_, _, _)
find_char(s, ch, from) ==
    IF from > Len(s) THEN 0
    ELSE IF s[from] = ch THEN from ELSE find_char(s, ch, from + 1)

has_paren(s) == find_char(s, "(", 1) # 0

\* s.split('(')[0]
split_paren_0(s) ==
    LET i == find_char(s, "(", 1)
    IN  IF i = 0 THEN s ELSE SubSeq(s, 1, i - 1)

\* s.split('(')[1], for an s that holds a '('
split_paren_1(s) ==
    LET i == find_char(s, "(", 1)
        j == find_char(s, "(", i + 1)
    IN  SubSeq(s, i + 1, IF j = 0 THEN Len(s) ELSE j - 1)

\* s.rstrip(')')
RECURSIVE rstrip_paren(_)
rstrip_paren(s) ==
    IF s # <<>> /\ s[Len(s)] = ")" THEN rstrip_paren(SubSeq(s, 1, Len(s) - 1)) ELSE s

Digit == [c \in {"0","1","2","3","4","5","6","7","8","9"} |->
             CASE c = "0" -> 0 [] c = "1" -> 1 [] c = "2" -> 2 [] c = "3" -> 3
               [] c = "4" -> 4 [] c = "5" -> 5 [] c = "6" -> 6 [] c = "7" -> 7
               [] c = "8" -> 8 [] c = "9" -> 9]

RECURSIVE digits_value(_, _)
digits_value(s, acc) ==
    IF s = <<>> THEN acc ELSE digits_value(Tail(s), 10 * acc + Digit[Head(s)])

\* int(s) of a string: its value, or RaiseInt (ValueError)
py_int_str(s) ==
    IF s # <<>> /\ \A i \in 1..Len(s) : s[i] \in DOMAIN Digit
    THEN digits_value(s, 0) ELSE RaiseInt

\* int(v) of a catalog number: int(None) raises TypeError
py_int_db(v) == IF v = NoneInt THEN RaiseInt ELSE v

_same_type_and_len(db_col_name, db_col_size, col_type, size_opt) ==
    LET col_name == split_paren_0(col_type)
        col_size == IF has_paren(col_type)
                    THEN py_int_str(rstrip_paren(split_paren_1(col_type)))
                    ELSE NoneInt
    IN  IF casefold(db_col_name) # casefold(col_name) THEN "false"
        ELSE IF col_size = RaiseInt THEN "raise"
        ELSE IF col_size = NoneInt THEN (IF ~size_opt THEN "false" ELSE "true")
        ELSE IF col_size # db_col_size THEN "false"
        ELSE "true"

CharFamily == {<<"c","h","a","r">>, <<"v","a","r","c","h","a","r">>,
               <<"b","i","n","a","r","y">>, <<"v","a","r","b","i","n","a","r","y">>,
               <<"t","i","n","y","b","l","o","b">>, <<"b","l","o","b">>,
               <<"t","i","n","y","t","e","x","t">>, <<"t","e","x","t">>}

DecimalFamily == {<<"d","e","c","i","m","a","l">>, <<"n","u","m","e","r","i","c">>,
                  <<"b","i","t">>}

_cols_match(db_col_type, db_col_len, db_numeric_len, col_type) ==
    IF casefold(db_col_type) \in CharFamily THEN
        IF py_int_db(db_col_len) = RaiseInt THEN "raise"
        ELSE _same_type_and_len(db_col_type, py_int_db(db_col_len), col_type, TRUE)
    ELSE IF casefold(db_col_type) \in DecimalFamily THEN
        IF py_int_db(db_numeric_len) = RaiseInt THEN "raise"
        ELSE _same_type_and_len(db_col_type, py_int_db(db_numeric_len), col_type, FALSE)
    ELSE IF casefold(col_type) = casefold(db_col_type) THEN "true" ELSE "false"

\* bool(x) of a flag of a column definition
py_bool(flag) == flag = "True"

\* col_indexes[col_name]: the dict comprehension keeps the last index of a name
col_index(cols, col_name) ==
    CHOOSE k \in 1..Len(cols) :
        /\ _sqlstr(cols[k].name) = col_name
        /\ \A j \in (k + 1)..Len(cols) : _sqlstr(cols[j].name) # col_name

in_col_indexes(cols, col_name) ==
    \E k \in 1..Len(cols) : _sqlstr(cols[k].name) = col_name

\* The body of table_cols_match's loop for one catalog row and the column
\* definition of its name: "true" when the loop goes on to the next row.
row_matches(row, match_col) ==
    LET type_ok == _cols_match(row.data_type, row.character_maximum_length,
                               row.numeric_scale, match_col.type)
    IN  IF type_ok # "true" THEN type_ok
        ELSE IF match_col.null_allowed # "Absent"
                /\ (row.is_nullable = 1) # py_bool(match_col.null_allowed) THEN "false"
        ELSE IF match_col.primary # "Absent"
                /\ (row.column_key = "PRI") # py_bool(match_col.primary) THEN "false"
        ELSE IF match_col.auto_increment # "Absent"
                /\ (row.auto_increment = 1) # py_bool(match_col.auto_increment) THEN "false"
        ELSE IF match_col.default \notin {Absent, None} THEN
                 \* column_default.casefold(): an AttributeError on None
                 IF row.column_default = None THEN "raise"
                 ELSE IF casefold(row.column_default) # casefold(match_col.default)
                      THEN "false" ELSE "true"
        ELSE "true"

RECURSIVE table_cols_match_from(_, _, _, _)
table_cols_match_from(rows, cols, i, found_cols) ==
    IF i > Len(rows)
    THEN (IF found_cols = Len(cols) THEN "true" ELSE "false")
    ELSE IF ~in_col_indexes(cols, rows[i].column_name) THEN "false"
    ELSE LET res == row_matches(rows[i], cols[col_index(cols, rows[i].column_name)])
         IN  IF res # "true" THEN res
             ELSE table_cols_match_from(rows, cols, i + 1, found_cols + 1)

\* table_cols_match over the rows of the catalog query: "true", "false", "raise"
table_cols_match(rows, cols) == table_cols_match_from(rows, cols, 1, 0)

----------------------------------------------------------------------------
(* The comparator run on its own: a column list, the catalog rows of a     *)
(* table created from it, alterations of the live table made outside the   *)
(* program, and one call of table_cols_match.                              *)

\* The most columns of a table definition.
MaxCols == 2
\* The most alterations made to the live table before it is compared.
MaxAlter == 2

T_char36 == <<"c","h","a","r","(","3","6",")">>
T_VARCHAR256 == <<"V","A","R","C","H","A","R","(","2","5","6",")">>
T_INT == <<"I","N","T">>

\* create_db.py get_column_info / get_enum: the types, flags and defaults of
\* a translated column
ColTypes == {T_char36, T_VARCHAR256, T_INT}
ColDefaults == {Absent, None, <<"N","o">>}
ColNames == <<(<<"i","d">>), (<<"a">>), (<<"b">>), (<<"c">>)>>

ColumnDef(k, type, null_allowed, primary, default) ==
    [name |-> ColNames[k], type |-> type, null_allowed |-> null_allowed,
     primary |-> primary,
     auto_increment |-> IF primary = "True" THEN "False" ELSE "Absent",
     default |-> default, foreign_key |-> <<>>,
     index |-> "False", is_spatial |-> "False"]

\* A primary key column is NOT NULL in the catalog.
Creatable(col) == col.primary = "True" => col.null_allowed # "True"

FirstColumns ==
    {c \in {ColumnDef(1, t, n, p, d) :
                t \in ColTypes, n \in {"Absent", "True", "False"},
                p \in {"Absent", "True", "False"}, d \in ColDefaults} : Creatable(c)}

OtherColumns(k) ==
    {ColumnDef(k, T_VARCHAR256, n, "False", d) : n \in {"Absent", "True"},
                                                  d \in ColDefaults}

RECURSIVE ColInfosOfLen(_)
ColInfosOfLen(n) ==
    IF n = 1 THEN {<<c>> : c \in FirstColumns}
    ELSE {Append(cols, c) : cols \in ColInfosOfLen(n - 1), c \in OtherColumns(n)}

ColInfos == UNION {ColInfosOfLen(n) : n \in 1..MaxCols}

\* The INFORMATION_SCHEMA.COLUMNS row of a column that create_table declared.
catalog_row(col) ==
    LET data_type == casefold(split_paren_0(col.type))
    IN  [column_name |-> _sqlstr(col.name),
         data_type |-> data_type,
         character_maximum_length |->
             IF data_type \in CharFamily /\ has_paren(col.type)
             THEN py_int_str(rstrip_paren(split_paren_1(col.type))) ELSE NoneInt,
         numeric_scale |-> IF data_type = casefold(T_INT) THEN 0 ELSE NoneInt,
         column_key |-> IF col.primary = "True" THEN "PRI" ELSE "",
         is_nullable |-> IF col.null_allowed = "False" \/ col.primary = "True"
                         THEN 0 ELSE 1,
         auto_increment |-> IF col.auto_increment = "True" THEN 1 ELSE 0,
         column_default |-> IF col.default \in {Absent, None} THEN None
                            ELSE col.default]

catalog_rows(cols) == [k \in 1..Len(cols) |-> catalog_row(cols[k])]

\* (data_type, character_maximum_length, numeric_scale) of live columns
LiveTypes ==
    { <<(<<"v","a","r","c","h","a","r">>), 256, NoneInt>>,
      <<(<<"v","a","r","c","h","a","r">>), 100, NoneInt>>,
      <<(<<"c","h","a","r">>), 36, NoneInt>>,
      <<(<<"t","e","x","t">>), 65535, NoneInt>>,
      <<(<<"i","n","t">>), NoneInt, 0>>,
      <<(<<"d","e","c","i","m","a","l">>), NoneInt, 2>> }

LiveDefaults == {None, <<"n","o">>, <<"z">>}

ColsInit ==
    /\ col_info \in ColInfos
    /\ db_cols = catalog_rows(col_info)
    /\ altered = <<>>
    /\ tcm_ret = "none"

ColsIdle ==
    /\ col_info = <<>>
    /\ db_cols = <<>>
    /\ altered = <<>>
    /\ tcm_ret = "none"

MayAlter == tcm_ret = "none" /\ Len(altered) < MaxAlter

\* ALTER TABLE ... MODIFY of one live column's type
AlterLiveType ==
    /\ MayAlter
    /\ \E i \in 1..Len(db_cols), t \in LiveTypes :
        /\ <<db_cols[i].data_type, db_cols[i].character_maximum_length,
             db_cols[i].numeric_scale>> # t
        /\ db_cols' = [db_cols EXCEPT ![i].data_type = t[1],
                                      ![i].character_maximum_length = t[2],
                                      ![i].numeric_scale = t[3]]
        /\ altered' = Append(altered, <<"type", i>>)
    /\ UNCHANGED <<col_info, tcm_ret, notCols>>

\* ... of its nullability (a primary key column stays NOT NULL)
AlterLiveNullable ==
    /\ MayAlter
    /\ \E i \in 1..Len(db_cols) :
        /\ db_cols[i].column_key # "PRI"
        /\ db_cols' = [db_cols EXCEPT ![i].is_nullable = 1 - @]
        /\ altered' = Append(altered, <<"nullable", i>>)
    /\ UNCHANGED <<col_info, tcm_ret, notCols>>

\* ... of its primary key flag (only a NOT NULL column can be the key)
AlterLiveKey ==
    /\ MayAlter
    /\ \E i \in 1..Len(db_cols) :
        /\ db_cols[i].is_nullable = 0
        /\ db_cols' = [db_cols EXCEPT ![i].column_key = IF @ = "PRI" THEN "" ELSE "PRI"]
        /\ altered' = Append(altered, <<"primary", i>>)
    /\ UNCHANGED <<col_info, tcm_ret, notCols>>

\* ... of its default (DROP DEFAULT leaves NULL)
AlterLiveDefault ==
    /\ MayAlter
    /\ \E i \in 1..Len(db_cols), d \in LiveDefaults :
        /\ db_cols[i].column_default # d
        /\ db_cols' = [db_cols EXCEPT ![i].column_default = d]
        /\ altered' = Append(altered, <<"default", i>>)
    /\ UNCHANGED <<col_info, tcm_ret, notCols>>

\* ALTER TABLE ... ADD COLUMN zz
AddLiveColumn ==
    /\ MayAlter
    /\ \A i \in 1..Len(db_cols) : db_cols[i].column_name # <<"z","z">>
    /\ db_cols' = Append(db_cols,
                         [catalog_row(ColumnDef(1, T_INT, "True", "False", None))
                              EXCEPT !.column_name = <<"z","z">>])
    /\ altered' = Append(altered, <<"add", Len(db_cols) + 1>>)
    /\ UNCHANGED <<col_info, tcm_ret, notCols>>

\* ALTER TABLE ... DROP COLUMN
DropLiveColumn ==
    /\ MayAlter
    /\ Len(db_cols) > 1
    /\ \E i \in 1..Len(db_cols) :
        /\ db_cols' = SubSeq(db_cols, 1, i - 1) \o SubSeq(db_cols, i + 1, Len(db_cols))
        /\ altered' = Append(altered, <<"drop", i>>)
    /\ UNCHANGED <<col_info, tcm_ret, notCols>>

CallTableColsMatch ==
    /\ tcm_ret = "none"
    /\ tcm_ret' = table_cols_match(db_cols, col_info)
    /\ UNCHANGED <<col_info, db_cols, altered, notCols>>

----------------------------------------------------------------------------
(* create_db.py: find_matching_index                                       *)

\* The most rows of the INFORMATION_SCHEMA.STATISTICS query.
MaxStatRows == 3

\* found_indexes: a dict in insertion order, here a sequence of
\* [name, cols] with one entry per index name
RECURSIVE found_indexes_of(_, _)
found_indexes_of(rows, found) ==
    IF rows = <<>> THEN found
    ELSE LET index_name == Head(rows)[1]
             column_name == Head(rows)[2]
             at == {k \in 1..Len(found) : found[k].name = index_name}
         IN  IF at = {}
             THEN found_indexes_of(Tail(rows),
                      Append(found, [name |-> index_name, cols |-> <<column_name>>]))
             ELSE found_indexes_of(Tail(rows),
                      [found EXCEPT ![CHOOSE k \in at : TRUE].cols =
                                        Append(@, column_name)])

SeqToSet(q) == {q[i] : i \in 1..Len(q)}

\* The mutant: an index matches only when its columns are exactly the
\* requested ones.
find_matching_index_exact(rows, column_names) ==
    LET found_indexes == found_indexes_of(rows, <<>>)
        hits == {k \in 1..Len(found_indexes) :
                     column_names = SeqToSet(found_indexes[k].cols)}
    IN  IF hits = {} THEN None
        ELSE found_indexes[CHOOSE k \in hits : \A j \in hits : k <= j].name

find_matching_index(rows, column_names) ==
    LET found_indexes == found_indexes_of(rows, <<>>)
        hits == {k \in 1..Len(found_indexes) :
                     column_names \subseteq SeqToSet(found_indexes[k].cols)}
    IN  IF hits = {} THEN None
        ELSE found_indexes[CHOOSE k \in hits : \A j \in hits : k <= j].name

IndexNames == {<<"P","R","I","M","A","R","Y">>, <<"i","1">>, <<"i","2">>}
IndexColumns == {<<"a">>, <<"b">>, <<"c">>}

\* seq_in_index of row i: its place among the rows of its index
seq_in_index(rows, i) ==
    Cardinality({j \in 1..i : rows[j][1] = rows[i][1]})

\* What the query can return: no column twice in an index, and the rows
\* ORDER BY seq_in_index ASC.
StatRowsOK(rows) ==
    /\ \A i, j \in 1..Len(rows) : i # j => rows[i] # rows[j]
    /\ \A i, j \in 1..Len(rows) :
           i < j => seq_in_index(rows, i) <= seq_in_index(rows, j)

RECURSIVE StatRowsUpTo(_)
StatRowsUpTo(n) ==
    IF n = 0 THEN {<<>>}
    ELSE LET shorter == StatRowsUpTo(n - 1)
         IN  shorter \cup
             {r \in {Append(q, <<x, c>>) : q \in {t \in shorter : Len(t) = n - 1},
                                           x \in IndexNames, c \in IndexColumns} :
                  StatRowsOK(r)}

IdxInit ==
    /\ stat_rows \in StatRowsUpTo(MaxStatRows)
    /\ index_column_names \in (SUBSET IndexColumns) \ {{}}
    /\ fmi_ret = <<>>

IdxIdle ==
    /\ stat_rows = <<>>
    /\ index_column_names = {}
    /\ fmi_ret = <<>>

CallFindMatchingIndex ==
    /\ fmi_ret = <<>>
    /\ fmi_ret' = <<find_matching_index(stat_rows, index_column_names)>>
    /\ UNCHANGED <<stat_rows, index_column_names, notIdx>>

----------------------------------------------------------------------------
(* a2database.py: table_exists, drop_table, create_table, view_exists,     *)
(* drop_view, create_view, over a database d:                              *)
(*   d.tables[t]   the catalog rows of table t, <<>> when t does not exist *)
(*   d.fks         the foreign keys: [table, name, column, ref_table,      *)
(*                 ref_col]                                                *)
(*   d.views       the names of the views                                  *)
(*   d.indexes[t]  the (index_name, column_name) rows of t's indexes       *)
(*   d.data[t]     the rows of t, each a function from column name to value*)
(* Each returns [db, log, out]: the database after it, the statements it   *)
(* executed on the cursor, in order, and out = "ok" or "raise".            *)

Stmt(stmt, on, name) == [stmt |-> stmt, on |-> on, name |-> name]

Step(d, lg, out) == [db |-> d, log |-> lg, out |-> out]

\* ... and with the messages logged
Result(d, lg, msgs, out) == [db |-> d, log |-> lg, logger |-> msgs, out |-> out]

table_exists(d, table_name) == d.tables[_sqlstr(table_name)] # <<>>

\* Rows of KEY_COLUMN_USAGE grouped as drop_table's dict fks groups them: by
\* parent table in order of first appearance, the names of a table in order.
RECURSIVE group_by_parent(_, _)
group_by_parent(rows, done) ==
    IF rows = <<>> THEN <<>>
    ELSE IF Head(rows).table \in done THEN group_by_parent(Tail(rows), done)
    ELSE SelectSeq(rows, LAMBDA r : r.table = Head(rows).table)
             \o group_by_parent(Tail(rows), done \cup {Head(rows).table})

\* The orders in which a query may return the elements of a set.
Orderings(set) ==
    {q \in [1..Cardinality(set) -> set] : \A e \in set : \E i \in DOMAIN q : q[i] = e}

\* The mutant: the table is dropped before the foreign keys that reference it.
drop_table_first(d, table_name, readonly, fk_rows) ==
    LET tn == _sqlstr(table_name)
        fks == group_by_parent(fk_rows, {})
        query == <<Stmt("SELECT KEY_COLUMN_USAGE", tn, <<>>)>>
        alters == [i \in 1..Len(fks) |->
                      Stmt("ALTER TABLE DROP FOREIGN KEY", fks[i].table, fks[i].name)]
    IN  IF readonly THEN Step(d, query, "ok")
        ELSE Step([d EXCEPT !.fks = {fk \in @ : fk.ref_table # tn /\ fk.table # tn},
                            !.tables[tn] = <<>>,
                            !.indexes[tn] = <<>>,
                            !.data[tn] = {}],
                  query \o <<Stmt("DROP TABLE", tn, <<>>)>> \o alters, "ok")

\* drop_table; fk_rows are the rows of its KEY_COLUMN_USAGE query, in the
\* order the engine returned them.
drop_table(d, table_name, readonly, fk_rows) ==
    LET tn == _sqlstr(table_name)
        fks == group_by_parent(fk_rows, {})
        query == <<Stmt("SELECT KEY_COLUMN_USAGE", tn, <<>>)>>
        alters == [i \in 1..Len(fks) |->
                      Stmt("ALTER TABLE DROP FOREIGN KEY", fks[i].table, fks[i].name)]
    IN  IF readonly THEN Step(d, query, "ok")
        ELSE Step([d EXCEPT !.fks = {fk \in @ : fk.ref_table # tn /\ fk.table # tn},
                            !.tables[tn] = <<>>,
                            !.indexes[tn] = <<>>,
                            !.data[tn] = {}],
                  query \o alters \o <<Stmt("DROP TABLE", tn, <<>>)>>, "ok")

\* fks_created of create_table: the columns with a foreign key
fks_created(table) ==
    {k \in 1..Len(table.columns) : table.columns[k].foreign_key # <<>>}

\* The index rows a created table has: PRIMARY; for a column with 'index'
\* set a spatial index named as the column, or an index whose name holds a
\* uuid (here the column's name); and the index the engine adds to a
\* foreign key column that has none.
RECURSIVE created_index_rows(_, _, _)
created_index_rows(tn, columns, k) ==
    IF k > Len(columns) THEN <<>>
    ELSE LET col == columns[k]
             col_name == _sqlstr(col.name)
             primary == IF col.primary = "True"
                        THEN << <<(<<"P","R","I","M","A","R","Y">>), col_name>> >>
                        ELSE <<>>
             idx == IF col.index = "True" /\ col.is_spatial = "True"
                    THEN << <<col_name, col_name>> >>
                    ELSE IF col.index = "True" \/ col.foreign_key # <<>>
                    THEN << <<tn \o <<"_">> \o col_name \o <<"_","i","d","x">>, col_name>> >>
                    ELSE <<>>
         IN  primary \o idx \o created_index_rows(tn, columns, k + 1)

created_fks(tn, columns) ==
    {[table |-> tn, name |-> tn \o <<"_","f","k","_">> \o _sqlstr(columns[k].name),
      column |-> _sqlstr(columns[k].name),
      ref_table |-> columns[k].foreign_key[1],
      ref_col |-> columns[k].foreign_key[2]] :
         k \in {j \in 1..Len(columns) : columns[j].foreign_key # <<>>}}

\* create_table: the CREATE TABLE statement fails in the engine when a
\* referenced table does not exist.
create_table(d, table, readonly) ==
    LET tn == _sqlstr(table.name)
        new_fks == created_fks(tn, table.columns)
        create == <<Stmt("CREATE TABLE", tn, <<>>)>>
    IN  IF readonly THEN Step(d, <<>>, "ok")
        ELSE IF \E fk \in new_fks : fk.ref_table # tn /\ d.tables[fk.ref_table] = <<>>
        THEN Step(d, create, "raise")
        ELSE Step([d EXCEPT !.tables[tn] = catalog_rows(table.columns),
                            !.fks = @ \cup new_fks,
                            !.indexes[tn] = created_index_rows(tn, table.columns, 1),
                            !.data[tn] = {}],
                  create, "ok")

view_exists(d, view_name) == _sqlstr(view_name) \in d.views

drop_view(d, view_name, readonly) ==
    LET vn == sqlstr(view_name, None)
        query == <<Stmt("SELECT TABLES", _sqlstr(view_name), <<>>)>>
    IN  IF view_exists(d, view_name) /\ ~readonly
        THEN Step([d EXCEPT !.views = @ \ {vn}], query \o <<Stmt("DROP VIEW", vn, <<>>)>>, "ok")
        ELSE Step(d, query, "ok")

\* _get_view_spatial_query_cols returns None for every type but 'point'
view_spatial_supported(col) == casefold(col.type) = <<"p","o","i","n","t">>

create_view(d, view_name, table, readonly) ==
    LET vn == _sqlstr(view_name) IN
    IF \E k \in 1..Len(table.columns) :
            /\ table.columns[k].foreign_key = <<>>
            /\ table.columns[k].is_spatial = "True"
            /\ ~view_spatial_supported(table.columns[k])
    THEN Step(d, <<>>, "raise")
    ELSE IF readonly THEN Step(d, <<>>, "ok")
    ELSE Step([d EXCEPT !.views = @ \cup {vn}], <<Stmt("CREATE VIEW", vn, <<>>)>>, "ok")

----------------------------------------------------------------------------------------------------------------------------------------------------------------------------------------------------
(* create_db.py: db_process_table                                          *)

view_suffix == <<"_","v","i","e","w">>

\* What db_process_table returns with once the view statement has run.
table_and_view(created, viewed, lg, msgs) ==
    Result(viewed.db, lg \o created.log \o viewed.log, msgs, viewed.out)

\* The mutant: the view is created for a table without foreign keys too.
view_of_created_any(created, table, o, lg, msgs) ==
    IF created.out # "ok"
    THEN Result(created.db, lg \o created.log, msgs, created.out)
    ELSE IF ~o.noviews
    THEN table_and_view(created,
             create_view(created.db, table.name \o view_suffix, table, o.readonly),
             lg, msgs)
    ELSE IF o.force
    THEN table_and_view(created,
             drop_view(created.db, table.name \o view_suffix, o.readonly), lg, msgs)
    ELSE Result(created.db, lg \o created.log, msgs, "ok")

\* if new_fks: create_view unless noviews, drop_view with noviews and force
view_of_created(created, table, o, lg, msgs) ==
    IF created.out # "ok" \/ fks_created(table) = {}
    THEN Result(created.db, lg \o created.log, msgs, created.out)
    ELSE IF ~o.noviews
    THEN table_and_view(created,
             create_view(created.db, table.name \o view_suffix, table, o.readonly),
             lg, msgs)
    ELSE IF o.force
    THEN table_and_view(created,
             drop_view(created.db, table.name \o view_suffix, o.readonly), lg, msgs)
    ELSE Result(created.db, lg \o created.log, msgs, "ok")

\* if not matches or force: create_table, then the view
create_table_and_view(d, table, o, matches, lg, msgs) ==
    IF ~(~matches \/ o.force) THEN Result(d, lg, msgs, "ok")
    ELSE view_of_created(create_table(d, table, o.readonly), table, o, lg, msgs)

\* The message logged once the comparator has returned.
table_message(o, verdict) ==
    IF verdict = "false"
    THEN (IF ~o.readonly THEN "Forcing the drop of table"
          ELSE "READONLY: table exists and would need the force flag")
    ELSE IF o.force
    THEN (IF o.readonly THEN "READONLY: table matches definition and would be recreated"
          ELSE "Forcing the drop of table despite matching definition")
    ELSE "Table already exists and matches definition"

\* The mutant: the existing table that does not match is dropped and created
\* again without the force flag.
db_process_table_no_conflict(d, table, o, existed, verdict, dropped) ==
    LET msgs == <<"Processing table">>
        probe == <<Stmt("SELECT TABLES", _sqlstr(table.name), <<>>)>>
        columns == <<Stmt("SELECT COLUMNS", _sqlstr(table.name), <<>>)>>
        drops == verdict = "false" \/ o.force
    IN  IF ~existed
        THEN create_table_and_view(d, table, o, FALSE, probe, msgs)
        ELSE IF verdict = "raise"
        THEN Result(d, probe \o columns, msgs, "raise")
        ELSE create_table_and_view(IF drops THEN dropped.db ELSE d, table, o,
                 verdict = "true",
                 probe \o columns \o (IF drops THEN dropped.log ELSE <<>>),
                 Append(msgs, table_message(o, verdict)))

\* db_process_table given what its queries found: existed, table_exists's
\* answer; verdict, table_cols_match's "true", "false" or "raise"; dropped,
\* what drop_table does when it is called.
db_process_table_does(d, table, o, existed, verdict, dropped) ==
    LET msgs == <<"Processing table">>
        probe == <<Stmt("SELECT TABLES", _sqlstr(table.name), <<>>)>>
        columns == <<Stmt("SELECT COLUMNS", _sqlstr(table.name), <<>>)>>
        drops == verdict = "false" \/ o.force
    IN  IF ~existed
        THEN create_table_and_view(d, table, o, FALSE, probe, msgs)
        ELSE IF verdict = "raise"
        THEN Result(d, probe \o columns, msgs, "raise")
        ELSE IF verdict = "false" /\ ~o.force /\ ~o.readonly
        THEN Result(d, probe \o columns, msgs, "RuntimeError")
        ELSE create_table_and_view(IF drops THEN dropped.db ELSE d, table, o,
                 verdict = "true",
                 probe \o columns \o (IF drops THEN dropped.log ELSE <<>>),
                 Append(msgs, table_message(o, verdict)))

\* ... and with what it did, what it found: existed, and matches, the
\* comparator's answer, "none" when it was not asked.
db_process_table_found(d, table, o, existed, verdict, dropped) ==
    [did |-> db_process_table_does(d, table, o, existed, verdict, dropped),
     existed |-> existed,
     matches |-> IF existed THEN verdict ELSE "none"]

\* The mutant: an existing table is dropped and created again whatever the
\* comparator and the force flag say.
db_process_table_always(d, table, o, fk_rows) ==
    db_process_table_found(d, table, [o EXCEPT !.force = TRUE],
                           table_exists(d, table.name), "true",
                           drop_table(d, table.name, o.readonly, fk_rows))

\* db_process_table: did.out = "ok", "RuntimeError" (the table exists and
\* does not match) or "raise" (another exception).
db_process_table(d, table, o, fk_rows) ==
    db_process_table_found(d, table, o, table_exists(d, table.name),
        table_cols_match(d.tables[_sqlstr(table.name)], table.columns),
        drop_table(d, table.name, o.readonly, fk_rows))

----------------------------------------------------------------------------
(* create_db.py: db_process_indexes                                        *)

PRIMARY == <<"P","R","I","M","A","R","Y">>

\* The rows of d.indexes[t] as the STATISTICS query returns them: ORDER BY
\* seq_in_index ASC.
at_seq(rows, k) ==
    LET upto[i \in 0..Len(rows)] ==
            IF i = 0 THEN <<>>
            ELSE IF seq_in_index(rows, i) = k THEN Append(upto[i - 1], rows[i])
            ELSE upto[i - 1]
    IN  upto[Len(rows)]

RECURSIVE rows_by_seq(_, _)
rows_by_seq(rows, k) ==
    IF k > Len(rows) THEN <<>> ELSE at_seq(rows, k) \o rows_by_seq(rows, k + 1)

statistics_rows(d, table_name) == rows_by_seq(d.indexes[table_name], 1)

\* _get_name_uuid: a name that no index of the table has
uuid_chars == <<"1","2","3","4","5","6","7","8","9">>

index_name_of(table_name, k) ==
    table_name \o <<"_", "u", uuid_chars[k], "_", "i", "d", "x">>

_get_name_uuid(d, table_name) ==
    CHOOSE k \in 1..Len(uuid_chars) :
        /\ \A i \in 1..Len(d.indexes[table_name]) :
               d.indexes[table_name][i][1] # index_name_of(table_name, k)
        /\ \A j \in 1..(k - 1) :
               \E i \in 1..Len(d.indexes[table_name]) :
                   d.indexes[table_name][i][1] = index_name_of(table_name, j)

\* The engine refuses DROP INDEX when a foreign key of the table needs the
\* index: no other index holds the constrained column.
index_needed_by_fk(d, table_name, index_name) ==
    LET rows == d.indexes[table_name]
        cols_of(n) == {rows[i][2] : i \in {j \in 1..Len(rows) : rows[j][1] = n}}
        others == {rows[i][1] : i \in 1..Len(rows)} \ {index_name}
    IN  \E fk \in d.fks :
            /\ fk.table = table_name
            /\ fk.column \in cols_of(index_name)
            /\ \A n \in others : fk.column \notin cols_of(n)

live_column_names(d, table_name) ==
    {d.tables[table_name][i].column_name : i \in 1..Len(d.tables[table_name])}

\* The columns of a set in the order list(set) gives them: hash_order is the
\* order in which this interpreter iterates them.
list_of_set(names, hash_order) == SelectSeq(hash_order, LAMBDA c : c \in names)

\* CREATE INDEX idx_name ON table (columns), unless readonly
create_index(d, tn, cols, idx_name, readonly, lg, msgs) ==
    IF readonly THEN Result(d, lg, msgs, "ok")
    ELSE IF ~(SeqToSet(cols) \subseteq live_column_names(d, tn))
    THEN Result(d, Append(lg, Stmt("CREATE INDEX", tn, idx_name)), msgs, "raise")
    ELSE Result([d EXCEPT !.indexes[tn] =
                              @ \o [k \in 1..Len(cols) |-> <<idx_name, cols[k]>>]],
                Append(lg, Stmt("CREATE INDEX", tn, idx_name)), msgs, "ok")

\* DROP INDEX matching_index ON table, unless readonly: out = "skip" when
\* the engine refuses and the index is not created again
drop_index(d, tn, matching_index, readonly, lg, msgs) ==
    IF readonly THEN Result(d, lg, msgs, "ok")
    ELSE IF index_needed_by_fk(d, tn, matching_index)
    THEN Result(d, Append(lg, Stmt("DROP INDEX", tn, matching_index)),
                Append(msgs, "Unable to remove matching index"), "skip")
    ELSE Result([d EXCEPT !.indexes[tn] = SelectSeq(@, LAMBDA r : r[1] # matching_index)],
                Append(lg, Stmt("DROP INDEX", tn, matching_index)), msgs, "ok")

create_after_drop(removed, tn, names, o, hash_order) ==
    IF removed.out = "skip" THEN [removed EXCEPT !.out = "ok"]
    ELSE create_index(removed.db, tn, list_of_set(names, hash_order),
                      index_name_of(tn, _get_name_uuid(removed.db, tn)), o.readonly,
                      removed.log, removed.logger)

\* process_index with the PRIMARY test of the continue left out
process_index_no_primary_test(d, one_index, o, hash_order, matching_index, lg, msgs) ==
    LET tn == one_index.table
        names == SeqToSet(one_index.column_names)
    IN  IF matching_index = None
        THEN create_after_drop(Result(d, lg, msgs, "ok"), tn, names, o, hash_order)
        ELSE IF ~o.force /\ ~o.readonly
        THEN Result(d, lg, msgs, "ok")
        ELSE create_after_drop(
                 drop_index(d, tn, matching_index, o.readonly, lg,
                            Append(msgs, "Forcing removal of matching index")),
                 tn, names, o, hash_order)

\* The body of db_process_indexes's loop for one index, matching_index being
\* what find_matching_index returned.
process_index(d, one_index, o, hash_order, matching_index, lg, msgs) ==
    LET tn == one_index.table
        names == SeqToSet(one_index.column_names)
    IN  IF matching_index = None
        THEN create_after_drop(Result(d, lg, msgs, "ok"), tn, names, o, hash_order)
        ELSE IF (~o.force \/ matching_index = PRIMARY) /\ ~o.readonly
        THEN Result(d, lg, msgs, "ok")
        ELSE create_after_drop(
                 drop_index(d, tn, matching_index, o.readonly, lg,
                            Append(msgs, "Forcing removal of matching index")),
                 tn, names, o, hash_order)

RECURSIVE db_process_indexes_from(_, _, _, _, _)
\* The loop of db_process_indexes from index i on, res being what the loop
\* has done so far.
db_process_indexes_from(res, indexes, i, o, hash_order) ==
    IF i > Len(indexes) \/ res.out # "ok" THEN res
    ELSE db_process_indexes_from(
             process_index(res.db, indexes[i], o, hash_order,
                 find_matching_index(statistics_rows(res.db, indexes[i].table),
                                     SeqToSet(indexes[i].column_names)),
                 Append(res.log, Stmt("SELECT STATISTICS", indexes[i].table, <<>>)),
                 Append(res.logger, "Processing index for table")),
             indexes, i + 1, o, hash_order)

db_process_indexes(d, indexes, o, hash_order) ==
    db_process_indexes_from(Result(d, <<>>, <<>>, "ok"), indexes, 1, o, hash_order)

----------------------------------------------------------------------------
(* create_db.py: find_table_pk, db_process_values; a2database.py:          *)
(* check_data_exists, add_update_data                                      *)

find_table_pk(table_name, tables) ==
    LET at == {t \in 1..Len(tables) :
                  /\ tables[t].name = table_name
                  /\ \E k \in 1..Len(tables[t].columns) :
                         tables[t].columns[k].primary = "True"}
    IN  IF at = {} THEN None
        ELSE LET t == CHOOSE x \in at : \A y \in at : x <= y
                 ks == {k \in 1..Len(tables[t].columns) :
                            tables[t].columns[k].primary = "True"}
             IN  tables[t].columns[CHOOSE k \in ks : \A j \in ks : k <= j].name

\* check_data_exists on the columns check_cols of one_value: "true" when the
\* count is 1, "raise" when the engine rejects the query.
check_data_exists(d, table_name, one_value, check_cols) ==
    LET tn == _sqlstr(table_name)
        hits == {r \in d.data[tn] :
                     \A c \in check_cols : r[_sqlstr(c)] = one_value[c]}
    IN  IF d.tables[tn] = <<>> THEN "raise"
        ELSE IF ~({_sqlstr(c) : c \in check_cols} \subseteq live_column_names(d, tn))
        THEN "raise"
        ELSE IF Cardinality(hits) = 1 THEN "true" ELSE "false"

\* The mutant: the statement is executed in readonly mode too.
add_update_data_unguarded(d, table_name, one_value, update, primary_key, readonly, lg, msgs) ==
    LET tn == _sqlstr(table_name)
        pk == _sqlstr(primary_key)
        updated == {IF r[pk] = one_value[primary_key]
                    THEN [c \in DOMAIN r |-> one_value[c]] ELSE r : r \in d.data[tn]}
    IN  IF update
        THEN Result([d EXCEPT !.data[tn] = updated],
                    Append(lg, Stmt("UPDATE", tn, <<>>)), msgs, "ok")
        ELSE Result([d EXCEPT !.data[tn] = @ \cup {one_value}],
                    Append(lg, Stmt("INSERT", tn, <<>>)), msgs, "ok")

\* add_update_data: UPDATE ... WHERE primary_key = %s, or INSERT
add_update_data(d, table_name, one_value, update, primary_key, readonly, lg, msgs) ==
    LET tn == _sqlstr(table_name)
        pk == _sqlstr(primary_key)
        updated == {IF r[pk] = one_value[primary_key]
                    THEN [c \in DOMAIN r |-> one_value[c]] ELSE r : r \in d.data[tn]}
    IN  IF readonly THEN Result(d, lg, msgs, "ok")
        ELSE IF update
        THEN Result([d EXCEPT !.data[tn] = updated],
                    Append(lg, Stmt("UPDATE", tn, <<>>)), msgs, "ok")
        ELSE Result([d EXCEPT !.data[tn] = @ \cup {one_value}],
                    Append(lg, Stmt("INSERT", tn, <<>>)), msgs, "ok")

\* The body of db_process_values's inner loop for one row, data_match being
\* the answer of the full row check.
process_value(d, tn, one_value, primary_key, o, data_match, lg, msgs) ==
    IF data_match = "raise" THEN Result(d, lg, msgs, "raise")
    ELSE IF data_match = "true"
    THEN Result(d, lg, Append(msgs, "Skipping row with exact match"), "ok")
    ELSE IF primary_key = None
    THEN add_update_data(d, tn, one_value, FALSE, primary_key, o.readonly, lg, msgs)
    ELSE IF check_data_exists(d, tn, one_value, {primary_key}) = "raise"
    THEN Result(d, Append(lg, Stmt("SELECT COUNT", _sqlstr(tn), <<>>)), msgs, "raise")
    ELSE add_update_data(d, tn, one_value,
             check_data_exists(d, tn, one_value, {primary_key}) = "true",
             primary_key, o.readonly,
             Append(lg, Stmt("SELECT COUNT", _sqlstr(tn), <<>>)), msgs)

RECURSIVE process_values_from(_, _, _, _, _)
\* The inner loop from row j of one_update on.
process_values_from(res, one_update, primary_key, j, o) ==
    IF j > Len(one_update.values) \/ res.out # "ok" THEN res
    ELSE process_values_from(
             process_value(res.db, one_update.table, one_update.values[j], primary_key, o,
                 check_data_exists(res.db, one_update.table, one_update.values[j],
                                   DOMAIN one_update.values[j]),
                 Append(res.log, Stmt("SELECT COUNT", _sqlstr(one_update.table), <<>>)),
                 res.logger),
             one_update, primary_key, j + 1, o)

RECURSIVE db_process_values_from(_, _, _, _, _)
\* The outer loop from update u on.
db_process_values_from(res, values, tables, u, o) ==
    IF u > Len(values) \/ res.out # "ok" THEN res
    ELSE db_process_values_from(
             process_values_from(
                 [res EXCEPT !.logger =
                      IF find_table_pk(values[u].table, tables) = None
                      THEN Append(@, "does not have a primary key") ELSE @],
                 values[u], find_table_pk(values[u].table, tables), 1, o),
             values, tables, u + 1, o)

\* if not readonly: conn.commit()
commit(res, readonly) ==
    IF res.out # "ok" THEN res
    ELSE [res EXCEPT !.log = IF readonly THEN @ ELSE Append(@, Stmt("COMMIT", <<>>, <<>>)),
                     !.logger = Append(@, "rows processed")]

db_process_values(d, values, tables, o) ==
    commit(db_process_values_from(
               Result(d, <<>>, <<"Processing values for tables">>, "ok"),
               values, tables, 1, o),
           o.readonly)

----------------------------------------------------------------------------
(* create_db.py: get_enum, get_column_info, get_geometry_columns,          *)
(* layer_table_get_indexes, process_layer_table.  A field is               *)
(* [name, type, nullable, defaultValue, domain], its domain <<>> or        *)
(* <<name, codedValues>>; the layers hold no relationships.                *)

C_code == <<"c","o","d","e">>
C_name == <<"n","a","m","e">>
C_objectid == <<"o","i","d">>
C_geom == <<"g","e","o","m">>
T_VARCHAR255 == <<"V","A","R","C","H","A","R","(","2","5","5",")">>
T_POINT == <<"P","O","I","N","T">>
T_POLYGON == <<"P","O","L","Y","G","O","N">>

T_MULTIPOINT == <<"M","U","L","T","I","P","O","I","N","T">>
T_LINESTRING == <<"L","I","N","E","S","T","R","I","N","G">>
T_GEOMETRY == <<"G","E","O","M","E","T","R","Y">>
T_GEOMETRYCOLLECTION ==
    <<"G","E","O","M","E","T","R","Y","C","O","L","L","E","C","T","I","O","N">>

\* A translation function returned ret, or raised the exception out.
Returned(ret) == [out |-> "ok", ret |-> ret]
Raised(out) == [out |-> out, ret |-> <<>>]

\* get_relationships: the destination relationships of the table, and the
\* accumulator with the table's origin relationships appended.  A role of ""
\* is a relationship without a role.
get_relationships(new_relations, cur_relations, cur_table_name, cur_table_id) ==
    LET dest == SelectSeq(new_relations, LAMBDA r : r.role = "esriRelRoleDestination")
        orig == SelectSeq(new_relations,
                          LAMBDA r : r.role # "" /\ r.role # "esriRelRoleDestination")
    IN  [relations |->
             Append(cur_relations,
                    [id |-> cur_table_id,
                     relations |-> [i \in 1..Len(orig) |->
                                       [table_id |-> orig[i].relatedTableId,
                                        table_name |-> cur_table_name,
                                        rel_name |-> orig[i].name,
                                        col_name |-> orig[i].keyField]]]),
         dest_rels |-> [i \in 1..Len(dest) |->
                           [rel_name |-> dest[i].name,
                            table_id |-> dest[i].relatedTableId,
                            col_name |-> dest[i].keyField]]]

\* get_enum of a domain <<type, name, codedValues>>
get_enum(domain) ==
    IF domain[1] # "codedValue" THEN Raised("IndexError")
    ELSE Returned(
        [table |-> [name |-> sqlstr(domain[2], None),
                    columns |-> <<
                        [name |-> C_code, type |-> T_VARCHAR256, null_allowed |-> "False",
                         primary |-> "True", auto_increment |-> "False",
                         default |-> Absent, foreign_key |-> <<>>, index |-> "True",
                         is_spatial |-> "Absent"],
                        [name |-> C_name, type |-> T_VARCHAR256, null_allowed |-> "False",
                         primary |-> "Absent", auto_increment |-> "Absent",
                         default |-> Absent, foreign_key |-> <<>>, index |-> "Absent",
                         is_spatial |-> "Absent"] >>],
         values |-> [table |-> sqlstr(domain[2], None),
                     values |-> [i \in 1..Len(domain[3]) |->
                                    (C_name :> domain[3][i].name)
                                        @@ (C_code :> domain[3][i].code)]]])

\* get_column_info: the type of the column, None for an unknown field type
column_type(col, enum) ==
    CASE col.type \in {"esriFieldTypeOID", "esriFieldTypeGlobalID", "esriFieldTypeGUID"}
             -> T_char36
      [] col.type = "esriFieldTypeInteger" -> T_INT
      [] col.type = "esriFieldTypeString" -> IF enum THEN T_VARCHAR256 ELSE T_VARCHAR255
      [] OTHER -> None

\* relationship_key leaving the column without a key when no table of the
\* accumulator has the relationship's table id
relationship_key_silent(found_rel, table_id, orig_rels) ==
    LET target_tables == SelectSeq(orig_rels, LAMBDA rel : rel.id = found_rel.table_id)
        target_rels(target_table) ==
            SelectSeq(target_table.relations, LAMBDA rel : rel.table_id = table_id)
    IN  IF target_tables = <<>> THEN Returned(<<>>)
        ELSE IF target_rels(Head(target_tables)) = <<>> THEN Returned(<<>>)
        ELSE Returned(<<Head(target_rels(Head(target_tables))).table_name,
                        Head(target_rels(Head(target_tables))).col_name>>)

\* get_column_info: the foreign key of a destination relationship on the
\* column, found_rel: out is "IndexError" when no table of the accumulator
\* has the relationship's table id, and the key is <<>> when that table
\* records no origin relationship with this table.
relationship_key(found_rel, table_id, orig_rels) ==
    LET target_tables == SelectSeq(orig_rels, LAMBDA rel : rel.id = found_rel.table_id)
        target_rels(target_table) ==
            SelectSeq(target_table.relations, LAMBDA rel : rel.table_id = table_id)
    IN  IF target_tables = <<>> THEN Raised("IndexError")
        ELSE IF target_rels(Head(target_tables)) = <<>> THEN Returned(<<>>)
        ELSE Returned(<<Head(target_rels(Head(target_tables))).table_name,
                        Head(target_rels(Head(target_tables))).col_name>>)

\* get_column_info once the domain and the relationships have been looked at
column_info(col, col_name, unique_field_id, enum, domain, rel_key) ==
    IF domain.out # "ok" THEN Raised(domain.out)
    ELSE IF column_type(col, enum) = None THEN Raised("IndexError")
    ELSE IF rel_key.out # "ok" THEN Raised(rel_key.out)
    ELSE Returned(
        [column |-> [name |-> col_name, type |-> column_type(col, enum),
                     index |-> IF enum THEN "True" ELSE "False",
                     is_spatial |-> "False",
                     default |-> col.defaultValue,
                     foreign_key |-> IF rel_key.ret # <<>> THEN rel_key.ret
                                     ELSE IF enum THEN <<domain.ret.table.name, C_code>>
                                     ELSE <<>>,
                     null_allowed |-> col.nullable,
                     primary |-> IF col.type = "esriFieldTypeOID"
                                        /\ col.name = unique_field_id
                                 THEN "True" ELSE "False",
                     auto_increment |-> "Absent"],
         enum |-> enum,
         table |-> IF enum THEN domain.ret.table ELSE <<>>,
         values |-> IF enum THEN domain.ret.values ELSE <<>>])

get_column_info(col, unique_field_id, table_id, dest_rels, orig_rels) ==
    LET col_name == sqlstr(col.name, None)
        enum == col.type = "esriFieldTypeString" /\ col.domain # <<>>
        found == SelectSeq(dest_rels, LAMBDA rel : rel.col_name = col_name)
    IN  column_info(col, col_name, unique_field_id, enum,
                    IF enum THEN get_enum(col.domain) ELSE Returned(<<>>),
                    IF found = <<>> THEN Returned(<<>>)
                    ELSE relationship_key(Head(found), table_id, orig_rels))

\* get_geometry_columns: the column type of a geometry type, None when the
\* geometry type is not one the function names
geometry_type(esri_geometry_type) ==
    CASE esri_geometry_type = "esriGeometryPoint" -> T_POINT
      [] esri_geometry_type = "esriGeometryMultipoint" -> T_MULTIPOINT
      [] esri_geometry_type \in {"esriGeometryLine", "esriGeometryPolyline",
                                 "esriGeometryPath"} -> T_LINESTRING
      [] esri_geometry_type \in {"esriGeometryRing", "esriGeometryPolygon"} -> T_POLYGON
      [] esri_geometry_type \in {"esriGeometryCircularArc", "esriGeometryEllipticArc",
                                 "esriGeometryBezier3Curve", "esriGeometryEnvelope",
                                 "esriGeometryAny", "esriGeometryBag",
                                 "esriGeometryMultiPatch", "esriGeometryTriangleStrip",
                                 "esriGeometryRay", "esriGeometrySphere"} -> T_GEOMETRY
      [] esri_geometry_type \in {"esriGeometryTriangeFan", "esriGeometryTriangles"}
             -> T_GEOMETRYCOLLECTION
      [] OTHER -> None

get_geometry_columns(esri_geometry_type) ==
    IF esri_geometry_type = "esriGeometryNull" THEN Returned(<<>>)
    ELSE IF geometry_type(esri_geometry_type) = None THEN Raised("IndexError")
    ELSE Returned(<< [name |-> C_geom,
                      type |-> geometry_type(esri_geometry_type),
                      index |-> "True", is_spatial |-> "True", default |-> None,
                      foreign_key |-> <<>>, null_allowed |-> "False", primary |-> "False",
                      auto_increment |-> "Absent"] >>)

layer_table_get_indexes(table_name, indexes, columns) ==
    LET table_columns == {columns[k].name : k \in 1..Len(columns)}
        index_fields(one_index) ==
            {sqlstr(one_index.fields[i], None) : i \in 1..Len(one_index.fields)}
        valid == SelectSeq(indexes, LAMBDA x : index_fields(x) \subseteq table_columns)
    IN  [i \in 1..Len(valid) |->
            [table |-> table_name,
             column_names |-> [j \in 1..Len(valid[i].fields) |->
                                  sqlstr(valid[i].fields[j], None)]]]

\* the first exception among the results of a loop, "ok" when there is none
first_raised(results) ==
    IF \A i \in 1..Len(results) : results[i].out = "ok" THEN "ok"
    ELSE results[CHOOSE i \in 1..Len(results) :
                     /\ results[i].out # "ok"
                     /\ \A j \in 1..(i - 1) : results[j].out = "ok"].out

\* process_layer_table once its columns are translated
layer_table(esri_schema, infos, enums, columns) ==
    [tables |-> [i \in 1..Len(enums) |-> enums[i].ret.table]
                    \o <<[name |-> esri_schema.name, columns |-> columns]>>,
     indexes |-> layer_table_get_indexes(sqlstr(esri_schema.name, None),
                                         esri_schema.indexes, columns),
     values |-> [i \in 1..Len(enums) |-> enums[i].ret.values]]

\* process_layer_table from its geometry check on, infos being what
\* get_column_info did for each field
layer_with_geometry(esri_schema, infos, geom) ==
    IF first_raised(infos) # "ok" THEN Raised(first_raised(infos))
    ELSE IF geom.out # "ok" THEN Raised(geom.out)
    ELSE Returned(layer_table(esri_schema, infos,
                              SelectSeq(infos, LAMBDA x : x.ret.enum),
                              [i \in 1..Len(infos) |-> infos[i].ret.column] \o geom.ret))

\* process_layer_table from its column loop on: dest_relations and
\* orig_relations are names of the function that only the relationships
\* branch binds
layer_columns(esri_schema, unique_field_id, bound, rels) ==
    IF ~bound /\ esri_schema.fields # <<>> THEN Raised("NameError")
    ELSE layer_with_geometry(
             esri_schema,
             [i \in 1..Len(esri_schema.fields) |->
                 get_column_info(esri_schema.fields[i], unique_field_id, esri_schema.id,
                                 rels.dest_rels, rels.relations)],
             IF esri_schema.geometryType # ""
             THEN get_geometry_columns(esri_schema.geometryType)
             ELSE Returned(<<>>))

\* the relationships branch of process_layer_table is taken
has_relationships(esri_schema) ==
    esri_schema.has_relationships /\ esri_schema.relationships # <<>>

\* the accumulator after process_layer_table: get_relationships appends to
\* the caller's list
relationships_after(esri_schema, relationships) ==
    IF has_relationships(esri_schema)
    THEN get_relationships(esri_schema.relationships, relationships,
                           sqlstr(esri_schema.name, None), esri_schema.id).relations
    ELSE relationships

process_layer_table(esri_schema, relationships) ==
    layer_columns(esri_schema,
                  IF esri_schema.uniqueIdField = Absent THEN C_objectid
                  ELSE sqlstr(esri_schema.uniqueIdField, None),
                  has_relationships(esri_schema),
                  IF has_relationships(esri_schema)
                  THEN get_relationships(esri_schema.relationships, relationships,
                                         sqlstr(esri_schema.name, None), esri_schema.id)
                  ELSE [relations |-> <<>>, dest_rels |-> <<>>])

----------------------------------------------------------------------------
(* create_db.py: update_database, run on the layers of a schema file       *)
(* against a database that starts empty; between two runs the live         *)
(* database may be altered from outside.                                   *)

\* The most layers of a schema file.
MaxLayers == 2
\* The most runs of the program against the database.
MaxRuns == 2

LayerName(k) == <<"L", uuid_chars[k]>>
DomainName == <<"S","t">>
C_n == <<"n">>
C_status == <<"s","t">>

StatusDomain == <<"codedValue", DomainName, << [name |-> "Active", code |-> "A"] >> >>

\* One relationship of a layer or table
Relationship(role, relatedTableId, keyField) ==
    [name |-> "rel", role |-> role, relatedTableId |-> relatedTableId,
     keyField |-> keyField]

OIDField == [name |-> C_objectid, type |-> "esriFieldTypeOID", nullable |-> "False",
             defaultValue |-> None, domain |-> <<>>]
IntField == [name |-> C_n, type |-> "esriFieldTypeInteger", nullable |-> "True",
             defaultValue |-> None, domain |-> <<>>]
StatusField(defaultValue) ==
    [name |-> C_status, type |-> "esriFieldTypeString", nullable |-> "True",
     defaultValue |-> defaultValue, domain |-> StatusDomain]

\* The first layer: with or without a coded-value field, with or without a
\* geometry, and four indexes, the last on a column it may not have.  Every
\* layer is the origin of a relationship.
FirstLayers ==
    {[id |-> 1, name |-> LayerName(1), uniqueIdField |-> Absent,
      has_relationships |-> TRUE,
      relationships |-> <<Relationship("esriRelRoleOrigin", 2, C_objectid)>>,
      fields |-> <<OIDField, IntField>> \o f,
      geometryType |-> g,
      indexes |-> << [fields |-> <<C_objectid>>], [fields |-> <<C_objectid, C_n>>],
                     [fields |-> <<C_n>>], [fields |-> <<C_status>>] >>] :
        f \in {<<>>, <<StatusField(None)>>, <<StatusField(<<"0">>)>>},
        g \in {"esriGeometryNull", "esriGeometryPoint", "esriGeometryPolygon"}}

\* The other layers share the coded-value domain.
OtherLayer(k) ==
    [id |-> k, name |-> LayerName(k), uniqueIdField |-> Absent,
     has_relationships |-> TRUE,
     relationships |-> <<Relationship("esriRelRoleOrigin", k + 1, C_objectid)>>,
     fields |-> <<OIDField, StatusField(None)>>,
     geometryType |-> "esriGeometryNull", indexes |-> <<>>]

EsriSchemas ==
    {<<f>> \o [k \in 1..(n - 1) |-> OtherLayer(k + 1)] :
         f \in FirstLayers, n \in 1..MaxLayers}

RECURSIVE translate_from(_, _, _, _)
\* create_update_database: the loop over an array from entity k on, done
\* being the entities translated so far and relationships the accumulator
translate_from(entities, k, relationships, done) ==
    IF k > Len(entities) THEN Returned(done)
    ELSE IF process_layer_table(entities[k], relationships).out # "ok"
    THEN Raised(process_layer_table(entities[k], relationships).out)
    ELSE translate_from(entities, k + 1, relationships_after(entities[k], relationships),
                        Append(done, process_layer_table(entities[k], relationships).ret))

\* create_update_database: the layers of a schema file with an empty tables
\* array, translated in order
Schemas == {translate_from(e, 1, <<>>, <<>>).ret : e \in EsriSchemas}

TableNames == {DomainName} \cup {LayerName(k) : k \in 1..MaxLayers}

EmptyDb ==
    [tables |-> [t \in TableNames |-> <<>>], fks |-> {}, views |-> {},
     indexes |-> [t \in TableNames |-> <<>>], data |-> [t \in TableNames |-> {}]]

Opts == [force : BOOLEAN, readonly : BOOLEAN, noviews : BOOLEAN]

NoCall == [op |-> "none", table |-> <<>>, existed |-> FALSE, verdict |-> "none",
           view_existed |-> FALSE,
           new_fks |-> FALSE, referenced_by |-> {}]

DDLInit ==
    /\ schema \in Schemas
    /\ opts = [force |-> FALSE, readonly |-> FALSE, noviews |-> FALSE]
    /\ db = EmptyDb
    /\ runs = 0
    /\ run_status = "idle"
    /\ pc = [s |-> 1, phase |-> "tables", t |-> 1]
    /\ call = NoCall
    /\ log = <<>>
    /\ logger = <<>>
    /\ touched = FALSE

DDLIdle ==
    /\ schema = <<>>
    /\ opts = [force |-> FALSE, readonly |-> FALSE, noviews |-> FALSE]
    /\ db = EmptyDb
    /\ runs = 0
    /\ run_status = "idle"
    /\ pc = [s |-> 1, phase |-> "tables", t |-> 1]
    /\ call = NoCall
    /\ log = <<>>
    /\ logger = <<>>
    /\ touched = FALSE

\* update_database is called with the options of this run.
StartRun ==
    /\ run_status # "running"
    /\ runs < MaxRuns
    /\ opts' \in Opts
    /\ runs' = runs + 1
    /\ run_status' = "running"
    /\ pc' = [s |-> 1, phase |-> "tables", t |-> 1]
    /\ call' = NoCall
    /\ log' = <<>>
    /\ logger' = <<>>
    /\ touched' = FALSE
    /\ UNCHANGED <<schema, db, notDDL>>

\* The rows of drop_table's KEY_COLUMN_USAGE query
referencing(d, table_name) ==
    {[table |-> fk.table, name |-> fk.name] :
         fk \in {f \in d.fks : f.ref_table = table_name}}

\* db_process_table has returned or raised res: a RuntimeError ends the run
\* with sys.exit(200), another exception leaves through main's handler.
TableProcessed(res, tables, table) ==
    /\ db' = res.did.db
    /\ log' = res.did.log
    /\ logger' = res.did.logger
    /\ call' = [op |-> "db_process_table", table |-> table.name,
                existed |-> res.existed,
                verdict |-> res.matches,
                view_existed |-> view_exists(db, table.name \o view_suffix),
                new_fks |-> fks_created(table) # {},
                referenced_by |-> referencing(db, _sqlstr(table.name))]
    /\ run_status' = IF res.did.out = "RuntimeError" THEN "exit200"
                     ELSE IF res.did.out = "raise" THEN "exit250"
                     ELSE "running"
    /\ pc' = IF res.did.out # "ok" THEN pc
             ELSE IF pc.t < Len(tables) THEN [pc EXCEPT !.t = @ + 1]
             ELSE [pc EXCEPT !.phase = "indexes"]

\* One db_process_table call of update_database's table loop
ProcessTable ==
    /\ run_status = "running"
    /\ pc.phase = "tables"
    /\ \E fk_rows \in Orderings(referencing(db, _sqlstr(schema[pc.s].tables[pc.t].name))) :
           TableProcessed(db_process_table(db, schema[pc.s].tables[pc.t], opts, fk_rows),
                          schema[pc.s].tables, schema[pc.s].tables[pc.t])
    /\ UNCHANGED <<schema, opts, runs, touched, notDDL>>

indexed_columns(indexes) ==
    UNION {SeqToSet(indexes[i].column_names) : i \in 1..Len(indexes)}

IndexesProcessed(res) ==
    /\ db' = res.db
    /\ log' = res.log
    /\ logger' = res.logger
    /\ call' = [NoCall EXCEPT !.op = "db_process_indexes"]
    /\ run_status' = IF res.out = "ok" THEN "running" ELSE "exit250"
    /\ pc' = IF res.out = "ok" THEN [pc EXCEPT !.phase = "values"] ELSE pc

\* db_process_indexes on the indexes of the layer
ProcessIndexes ==
    /\ run_status = "running"
    /\ pc.phase = "indexes"
    /\ \E hash_order \in Orderings(indexed_columns(schema[pc.s].indexes)) :
           IndexesProcessed(db_process_indexes(db, schema[pc.s].indexes, opts, hash_order))
    /\ UNCHANGED <<schema, opts, runs, touched, notDDL>>

ValuesProcessed(res) ==
    /\ db' = res.db
    /\ log' = res.log
    /\ logger' = res.logger
    /\ call' = [NoCall EXCEPT !.op = "db_process_values"]
    /\ run_status' = IF res.out # "ok" THEN "exit250"
                     ELSE IF pc.s < Len(schema) THEN "running"
                     ELSE "done"
    /\ pc' = IF res.out = "ok" /\ pc.s < Len(schema)
             THEN [s |-> pc.s + 1, phase |-> "tables", t |-> 1]
             ELSE pc

\* db_process_values on the values of the layer, then the next layer
ProcessValues ==
    /\ run_status = "running"
    /\ pc.phase = "values"
    /\ ValuesProcessed(db_process_values(db, schema[pc.s].values, schema[pc.s].tables, opts))
    /\ UNCHANGED <<schema, opts, runs, touched, notDDL>>

\* Between two runs somebody alters the live database once.
MayTouch == run_status \notin {"idle", "running"} /\ runs < MaxRuns /\ ~touched

\* ALTER TABLE ... MODIFY of a column's nullability
TouchNullable ==
    /\ MayTouch
    /\ \E tn \in TableNames : \E i \in 1..Len(db.tables[tn]) :
           /\ db.tables[tn][i].column_key # "PRI"
           /\ db' = [db EXCEPT !.tables[tn][i].is_nullable = 1 - @]
    /\ touched' = TRUE
    /\ UNCHANGED <<schema, opts, runs, run_status, pc, call, log, logger, notDDL>>

\* ALTER TABLE ... ALTER COLUMN ... DROP DEFAULT
TouchDefault ==
    /\ MayTouch
    /\ \E tn \in TableNames : \E i \in 1..Len(db.tables[tn]) :
           /\ db.tables[tn][i].column_default # None
           /\ db' = [db EXCEPT !.tables[tn][i].column_default = None]
    /\ touched' = TRUE
    /\ UNCHANGED <<schema, opts, runs, run_status, pc, call, log, logger, notDDL>>

\* UPDATE of the name of a row of a lookup table
TouchRow ==
    /\ MayTouch
    /\ \E tn \in TableNames : \E r \in db.data[tn] :
           /\ r[C_name] # "Other"
           /\ db' = [db EXCEPT !.data[tn] = (@ \ {r}) \cup {[r EXCEPT ![C_name] = "Other"]}]
    /\ touched' = TRUE
    /\ UNCHANGED <<schema, opts, runs, run_status, pc, call, log, logger, notDDL>>

----------------------------------------------------------------------------
(* create_db.py: create_update_database, the translation of the layers and *)
(* tables of a schema file, from its connection to the database on.        *)

\* The most layers and tables of a schema file.
MaxEntities == 2

C_gid == <<"g">>
C_uid == <<"u">>
C_ref == <<"r">>

GlobalIDField == [name |-> C_gid, type |-> "esriFieldTypeGlobalID", nullable |-> "False",
                  defaultValue |-> None, domain |-> <<>>]
GUIDField == [name |-> C_uid, type |-> "esriFieldTypeGUID", nullable |-> "True",
              defaultValue |-> None, domain |-> <<>>]
RefField == [name |-> C_ref, type |-> "esriFieldTypeInteger", nullable |-> "True",
             defaultValue |-> None, domain |-> <<>>]

\* A coded-value domain of two values
OpenClosedDomain ==
    <<"codedValue", DomainName,
      << [name |-> "Open", code |-> "O"], [name |-> "Closed", code |-> "C"] >> >>

\* A string field of the domain, under a name
DomainField(name) ==
    [name |-> name, type |-> "esriFieldTypeString", nullable |-> "True",
     defaultValue |-> None, domain |-> OpenClosedDomain]

\* The relationships an entity k may declare with the entity other: the key
\* absent, an empty array, the origin of a relationship, the destination of
\* one on its column r, and both ends of a relationship with itself.
RelationshipsOf(k, other) ==
    {[has |-> FALSE, relationships |-> <<>>],
     [has |-> TRUE, relationships |-> <<>>],
     [has |-> TRUE,
      relationships |-> <<Relationship("esriRelRoleOrigin", other, C_objectid)>>],
     [has |-> TRUE,
      relationships |-> <<Relationship("esriRelRoleDestination", other, C_ref)>>],
     [has |-> TRUE,
      relationships |-> <<Relationship("esriRelRoleOrigin", k, C_objectid),
                          Relationship("esriRelRoleDestination", k, C_ref)>>]}

Entity(k, fields, uniqueIdField, geometryType, r) ==
    [id |-> k, name |-> LayerName(k), uniqueIdField |-> uniqueIdField,
     has_relationships |-> r.has, relationships |-> r.relationships,
     fields |-> fields, geometryType |-> geometryType, indexes |-> <<>>]

GeometryTypes == {"", "esriGeometryNull", "esriGeometryPoint",
                  "esriGeometryBezier3Curve", "esriGeometryTriangleFan"}

\* The first entity: three identifier fields and one more field or none, any
\* of them or none declared the unique id, any relationships; or any geometry
\* type; or no field at all.
FirstEntities ==
    {Entity(1, <<OIDField, GlobalIDField, GUIDField>> \o f, u, "", r) :
         f \in {<<>>, <<RefField>>, <<DomainField(C_status)>>, <<DomainField(C_ref)>>},
         u \in {Absent, C_objectid, C_gid, C_uid},
         r \in RelationshipsOf(1, 2)}
    \cup {Entity(1, <<OIDField>>, Absent, g, r) :
              g \in GeometryTypes,
              r \in {x \in RelationshipsOf(1, 2) : Len(x.relationships) = 1}}
    \cup {Entity(1, <<>>, Absent, "", r) :
              r \in {x \in RelationshipsOf(1, 2) : ~x.has}}

OtherEntities(k) ==
    {Entity(k, <<OIDField>> \o f, Absent, "", r) :
         f \in {<<>>, <<RefField>>}, r \in RelationshipsOf(k, 1)}

\* The entities of a schema file, in the order of the file
EntitiesUpTo(n) ==
    IF n = 0 THEN {<<>>}
    ELSE {<<f>> \o [i \in 1..(n - 1) |-> o[i + 1]] :
              f \in FirstEntities,
              o \in {h \in [2..n -> UNION {OtherEntities(k) : k \in 2..n}] :
                         \A k \in 2..n : h[k].id = k}}

\* The schema files of some entities: the first cut entities are its
\* layers, the others its tables; an array without entities may be absent.
SchemaFilesOf(e) ==
    UNION {
        {[has_layers |-> hl, layers |-> SubSeq(e, 1, cut),
          has_tables |-> ht, tables |-> SubSeq(e, cut + 1, Len(e))] :
             hl \in {h \in BOOLEAN : h \/ cut = 0},
             ht \in {h \in BOOLEAN : h \/ cut = Len(e)}} :
        cut \in 0..Len(e)}

SchemaFiles ==
    UNION {SchemaFilesOf(e) : e \in UNION {EntitiesUpTo(n) : n \in 0..MaxEntities}}

TrInit ==
    /\ schema_data \in SchemaFiles
    /\ cud_relationships = <<>>
    /\ cud_layers = <<>>
    /\ cud_tables = <<>>
    /\ cud_status = "translating"
    /\ cud_schema = <<>>

TrIdle ==
    /\ schema_data = [has_layers |-> FALSE, layers |-> <<>>,
                      has_tables |-> FALSE, tables |-> <<>>]
    /\ cud_relationships = <<>>
    /\ cud_layers = <<>>
    /\ cud_tables = <<>>
    /\ cud_status = "idle"
    /\ cud_schema = <<>>

LayersDone == ~schema_data.has_layers \/ Len(cud_layers) = Len(schema_data.layers)
TablesDone == ~schema_data.has_tables \/ Len(cud_tables) = Len(schema_data.tables)

\* process_layer_table on esri_schema has returned or raised res: an
\* exception leaves create_update_database.
Translated(res, esri_schema) ==
    /\ cud_status' = IF res.out = "ok" THEN "translating" ELSE res.out
    /\ cud_relationships' = relationships_after(esri_schema, cud_relationships)
    /\ cud_schema' = cud_schema
    /\ UNCHANGED <<schema_data, notTr>>

\* One process_layer_table call of the loop over the layers
TranslateLayer ==
    /\ cud_status = "translating"
    /\ ~LayersDone
    /\ \E res \in {process_layer_table(schema_data.layers[Len(cud_layers) + 1],
                                       cud_relationships)} :
           /\ Translated(res, schema_data.layers[Len(cud_layers) + 1])
           /\ cud_layers' = IF res.out = "ok" THEN Append(cud_layers, res.ret)
                            ELSE cud_layers
    /\ UNCHANGED cud_tables

\* One process_layer_table call of the loop over the tables
TranslateTable ==
    /\ cud_status = "translating"
    /\ LayersDone /\ ~TablesDone
    /\ \E res \in {process_layer_table(schema_data.tables[Len(cud_tables) + 1],
                                       cud_relationships)} :
           /\ Translated(res, schema_data.tables[Len(cud_tables) + 1])
           /\ cud_tables' = IF res.out = "ok" THEN Append(cud_tables, res.ret)
                            ELSE cud_tables
    /\ UNCHANGED cud_layers

\* update_database(db_conn, layers + tables, opts): layers and tables are
\* None unless the schema file has the array, and a list and None cannot be
\* added.
CallUpdateDatabase ==
    /\ cud_status = "translating"
    /\ LayersDone /\ TablesDone
    /\ IF schema_data.has_layers /\ schema_data.has_tables
       THEN /\ cud_schema' = cud_layers \o cud_tables
            /\ cud_status' = "update_database"
       ELSE /\ cud_schema' = cud_schema
            /\ cud_status' = "TypeError"
    /\ UNCHANGED <<schema_data, cud_relationships, cud_layers, cud_tables, notTr>>

----------------------------------------------------------------------------
(* The row loaders: data_xfer_excel.process_sheet, process_esri_data with   *)
(* process_esri_row, and populate_from_excel.process_sheets, against one   *)
(* table with the columns id (the primary key of the options), v, and      *)
(* possibly a geometry column fed by the row's x and y.                    *)

\* The most data rows of one sheet or feature query.
MaxRows == 2

DEFAULT_GEOM_EPSG == 4326
OtherEpsg == 3857
Epsgs == {DEFAULT_GEOM_EPSG, OtherEpsg}

\* The reprojection of the projection library and of ST_TRANSFORM, which
\* agree: a coordinate moves by the distance between the two systems, so
\* that reprojecting there and back is the identity and reprojecting twice
\* is not reprojecting once.
Shift(epsg) == IF epsg = DEFAULT_GEOM_EPSG THEN 0 ELSE 10
Reproject(from_epsg, to_epsg, c) == c + Shift(to_epsg) - Shift(from_epsg)

\* values is X1, Y1, ...
transform_points(from_epsg, to_epsg, values, GEOM_CAN_TRANSFORM) ==
    IF Len(values) % 2 # 0 \/ Len(values) < 1 THEN Raised("ValueError")
    ELSE IF ~GEOM_CAN_TRANSFORM THEN Raised("ValueError")
    ELSE Returned([i \in 1..Len(values) |-> Reproject(from_epsg, to_epsg, values[i])])

\* No geometry column: get_col_info returned None for it
NoGeomInfo == [found |-> FALSE, transform |-> FALSE, from_epsg |-> 0, to_epsg |-> 0]

\* A row of the sheet or of the feature query: pt is <<>> or the <<x, y>> of
\* its coordinate columns.  The row with pt replaced:
WithPoint(row, pt) == [id |-> row.id, v |-> row.v, pt |-> pt]

transform_geom_cols(row, geom_col_info, from_epsg, to_epsg, GEOM_CAN_TRANSFORM) ==
    IF from_epsg = to_epsg THEN Returned(row)
    ELSE LET res == transform_points(from_epsg, to_epsg, row.pt, GEOM_CAN_TRANSFORM)
         IN  IF res.out = "ok" THEN Returned(WithPoint(row, res.ret)) ELSE res

\* get_col_info: the geometry column of the table and the SQL fragment that
\* builds its value; has_pt says that the point columns of the options are
\* among col_names.
get_col_info(conn, has_pt, geometry_epsg) ==
    IF conn.geom_type = "" THEN Returned(NoGeomInfo)
    ELSE IF conn.geom_type = "POINT" /\ has_pt
    THEN Returned([found |-> TRUE,
                   transform |-> conn.version_major >= 8 /\ geometry_epsg # conn.epsg,
                   from_epsg |-> geometry_epsg,
                   to_epsg |-> conn.epsg])
    ELSE Raised("ValueError")

\* The value of geom_col_info['col_sql'] with the coordinates pt bound to it
col_sql(geom_col_info, pt) ==
    IF geom_col_info.transform
    THEN <<Reproject(geom_col_info.from_epsg, geom_col_info.to_epsg, pt[1]),
           Reproject(geom_col_info.from_epsg, geom_col_info.to_epsg, pt[2]),
           geom_col_info.to_epsg>>
    ELSE <<pt[1], pt[2], geom_col_info.to_epsg>>

\* column = %s of a WHERE clause: never true of a NULL on either side
SqlEqual(stored, bound, none) == stored # none /\ bound # none /\ stored = bound

\* check_data_exists_pk finding no row, whatever the table holds
check_data_exists_pk_none(table, pk_value) == FALSE

\* check_data_exists_pk: SELECT count(1) ... WHERE id=%s, true above 0
check_data_exists_pk(table, pk_value) ==
    Cardinality({i \in 1..Len(table) : SqlEqual(table[i].id, pk_value, NoneInt)}) > 0

\* A2Database.check_data_exists on a row: by primary key alone when one is
\* given, else by every column and the geometry; true for a count of 1
row_data_exists(table, row, geom_col_info, primary_key) ==
    IF primary_key
    THEN Cardinality({i \in 1..Len(table) : SqlEqual(table[i].id, row.id, NoneInt)}) = 1
    ELSE Cardinality({i \in 1..Len(table) :
                         /\ SqlEqual(table[i].id, row.id, NoneInt)
                         /\ SqlEqual(table[i].v, row.v, None)
                         /\ geom_col_info.found =>
                                table[i].g = col_sql(geom_col_info, row.pt)}) = 1

\* The table row that a write of row makes, old being the geometry kept when
\* the statement names no geometry column
Written(row, geom_col_info, old) ==
    [id |-> row.id, v |-> row.v,
     g |-> IF geom_col_info.found THEN col_sql(geom_col_info, row.pt) ELSE old]

\* A2Database.add_update_data on a row: UPDATE ... WHERE id = %s, or INSERT
row_add_update_data(table, row, geom_col_info, update) ==
    IF update
    THEN [i \in 1..Len(table) |->
             IF SqlEqual(table[i].id, row.id, NoneInt)
             THEN Written(row, geom_col_info, table[i].g)
             ELSE table[i]]
    ELSE Append(table, Written(row, geom_col_info, <<>>))

\* What the processing of one row did: out is "added", "skipped" or the
\* exception that left the loop, table the rows of the table afterwards and
\* stmts the statements executed, in order.
RowDone(out, table, stmts) == [out |-> out, table |-> table, stmts |-> stmts]

\* The end of the three loop bodies: the client-side reprojection when
\* reproject holds, then add_update_data.  no_xy: the statement names the
\* row's x and y as columns of the table, which has none.
upsert(table, row, geom_col_info, data_exists, reproject, from_epsg, conn, o, no_xy, stmts) ==
    LET tr == IF reproject
              THEN transform_geom_cols(row, geom_col_info, from_epsg, conn.epsg,
                                       o.GEOM_CAN_TRANSFORM)
              ELSE Returned(row)
    IN  IF tr.out # "ok" THEN RowDone(tr.out, table, stmts)
        ELSE IF no_xy
        THEN RowDone("DatabaseError", table,
                     Append(stmts, IF data_exists THEN "UPDATE" ELSE "INSERT"))
        ELSE RowDone("added",
                     row_add_update_data(table, tr.ret, geom_col_info, data_exists),
                     Append(stmts, IF data_exists THEN "UPDATE" ELSE "INSERT"))

\* The rows skipped under force because nothing changed: the comparison of
\* process_sheet and process_esri_row
unchanged(table, row, geom_col_info) == row_data_exists(table, row, geom_col_info, FALSE)

\* process_sheet without its test of a null primary key
process_sheet_no_null_test(table, row, geom_col_info, conn, o) ==
    IF check_data_exists_pk(table, row.id) /\ ~o.force
    THEN RowDone("skipped", table, <<"check_data_exists_pk">>)
    ELSE upsert(table, row, geom_col_info, check_data_exists_pk(table, row.id),
                FALSE, o.geometry_epsg, conn, o, FALSE, <<"check_data_exists_pk">>)

\* process_sheet updating the rows that exist whether force is set or not
process_sheet_force_ignored(table, row, geom_col_info, conn, o) ==
    IF row.id = NoneInt THEN RowDone("skipped", table, <<>>)
    ELSE IF check_data_exists_pk(table, row.id) /\ unchanged(table, row, geom_col_info)
    THEN RowDone("skipped", table, <<"check_data_exists_pk", "check_data_exists">>)
    ELSE upsert(table, row, geom_col_info, check_data_exists_pk(table, row.id),
                geom_col_info.found /\ conn.epsg # o.geometry_epsg,
                o.geometry_epsg, conn, o, FALSE, <<"check_data_exists_pk">>)

\* The body of the row loop of data_xfer_excel.process_sheet
process_sheet(table, row, geom_col_info, conn, o) ==
    IF row.id = NoneInt THEN RowDone("skipped", table, <<>>)
    ELSE LET data_exists == check_data_exists_pk(table, row.id)
         IN  IF data_exists /\ ~o.force
             THEN RowDone("skipped", table, <<"check_data_exists_pk">>)
             ELSE IF data_exists /\ unchanged(table, row, geom_col_info)
             THEN RowDone("skipped", table,
                          <<"check_data_exists_pk", "check_data_exists">>)
             ELSE upsert(table, row, geom_col_info, data_exists,
                         geom_col_info.found /\ conn.epsg # o.geometry_epsg,
                         o.geometry_epsg, conn, o, FALSE,
                         IF data_exists
                         THEN <<"check_data_exists_pk", "check_data_exists">>
                         ELSE <<"check_data_exists_pk">>)

\* The body of the row loop of populate_from_excel.process_sheets
process_sheets(table, row, geom_col_info, conn, o) ==
    IF row.id = NoneInt THEN RowDone("skipped", table, <<>>)
    ELSE LET data_exists == row_data_exists(table, row, geom_col_info, TRUE)
         IN  IF data_exists /\ ~o.force
             THEN RowDone("skipped", table, <<"check_data_exists">>)
             ELSE upsert(table, row, geom_col_info, data_exists,
                         geom_col_info.found /\ conn.epsg # o.geometry_epsg,
                         o.geometry_epsg, conn, o, FALSE, <<"check_data_exists">>)

\* process_esri_row after its geometry lookup: info is what get_col_info
\* returned, or NoGeomInfo when it raised and force is set
esri_row(table, row, geom_col_info, conn, o) ==
    LET no_xy == ~geom_col_info.found /\ row.pt # <<>>
    IN  IF row.id = NoneInt THEN RowDone("skipped", table, <<"get_col_info">>)
        ELSE LET data_exists == check_data_exists_pk(table, row.id)
             IN  IF data_exists /\ ~o.force
                 THEN RowDone("skipped", table, <<"get_col_info", "check_data_exists_pk">>)
                 ELSE IF data_exists /\ no_xy
                 THEN RowDone("DatabaseError", table,
                              <<"get_col_info", "check_data_exists_pk", "check_data_exists">>)
                 ELSE IF data_exists /\ unchanged(table, row, geom_col_info)
                 THEN RowDone("skipped", table,
                              <<"get_col_info", "check_data_exists_pk", "check_data_exists">>)
                 ELSE upsert(table, row, geom_col_info, data_exists,
                             geom_col_info.found /\ conn.epsg # o.wkid,
                             o.wkid, conn, o, no_xy,
                             IF data_exists
                             THEN <<"get_col_info", "check_data_exists_pk",
                                    "check_data_exists">>
                             ELSE <<"get_col_info", "check_data_exists_pk">>)

\* process_esri_row: the x and y of SHAPE@ become columns, and the geometry
\* lookup is made for every row; its ValueError is passed on unless force
process_esri_row(table, row, conn, o) ==
    LET info == get_col_info(conn, row.pt # <<>>, o.geometry_epsg)
    IN  IF info.out # "ok" /\ ~o.force
        THEN RowDone(info.out, table, <<"get_col_info">>)
        ELSE esri_row(table, row, IF info.out = "ok" THEN info.ret ELSE NoGeomInfo,
                      conn, o)

Sheets == {"process_sheet", "process_sheets"}
Esri == {"esri_layer", "esri_table"}

\* The row by the loader of the options
process_row(table, row, geom_col_info, conn, o) ==
    IF o.loader = "process_sheet" THEN process_sheet(table, row, geom_col_info, conn, o)
    ELSE IF o.loader = "process_sheets"
    THEN process_sheets(table, row, geom_col_info, conn, o)
    ELSE process_esri_row(table, row, conn, o)

\* A statement of the log: of the sheet (or table) sheet, of its row row (0:
\* of no row), on the constraint cons ("": on none)
Issued(stmt, sheet, row, cons) ==
    [stmt |-> stmt, sheet |-> sheet, row |-> row, cons |-> cons]

Tagged(stmts, sheet, k) == [i \in 1..Len(stmts) |-> Issued(stmts[i], sheet, k, "")]

\* The foreign keys that reference the table: of one column, and composite
FkSingle ==
    [name |-> "fk_u", table_name |-> "U",
     columns |-> <<"t_id">>, ref_columns |-> <<"id">>]
FkComposite ==
    [name |-> "fk_c", table_name |-> "C",
     columns |-> <<"t_id", "t_v">>, ref_columns |-> <<"id", "v">>]
FkSecond ==
    [name |-> "fk_w", table_name |-> "W",
     columns |-> <<"t_ref">>, ref_columns |-> <<"id">>]

\* The rows of INFORMATION_SCHEMA.KEY_COLUMN_USAGE of one constraint
usage_rows(fk) ==
    [i \in 1..Len(fk.columns) |->
        [TABLE_NAME |-> fk.table_name, COLUMN_NAME |-> fk.columns[i],
         CONSTRAINT_NAME |-> fk.name,
         REFERENCED_COLUMN_NAME |-> fk.ref_columns[i], ORDINAL_POSITION |-> i]]

\* The rows of the query of db_get_fk_constraints, ORDER BY TABLE_NAME,
\* ORDINAL_POSITION: fks holds one constraint a table, by table name
RECURSIVE key_column_usage(_)
key_column_usage(fks) ==
    IF fks = <<>> THEN <<>>
    ELSE usage_rows(Head(fks)) \o key_column_usage(Tail(fks))

\* cur_cons['ref_columns'] padded with '' up to ord_pos, and set at ord_pos
ref_columns_set(ref_columns, ord_pos, ref_column) ==
    [i \in 1..(IF Len(ref_columns) < ord_pos THEN ord_pos ELSE Len(ref_columns)) |->
        IF i = ord_pos THEN ref_column
        ELSE IF i <= Len(ref_columns) THEN ref_columns[i] ELSE ""]

\* The loop of db_get_fk_constraints from the row k on: constraints is the
\* dictionary, its entries in the order they were inserted.  An entry keeps
\* the column of the first row that named the constraint.
RECURSIVE get_fk_constraints_from(_, _, _)
get_fk_constraints_from(rows, k, constraints) ==
    IF k > Len(rows) THEN constraints
    ELSE LET one_row == rows[k]
             at == {i \in 1..Len(constraints) :
                       constraints[i].name = one_row.CONSTRAINT_NAME}
             cur_cons == IF at # {} THEN constraints[CHOOSE i \in at : TRUE]
                         ELSE [name |-> one_row.CONSTRAINT_NAME,
                               table_name |-> one_row.TABLE_NAME,
                               table_column |-> one_row.COLUMN_NAME,
                               ref_columns |-> <<>>]
             new_cons == [cur_cons EXCEPT !.ref_columns =
                             ref_columns_set(@, one_row.ORDINAL_POSITION,
                                             one_row.REFERENCED_COLUMN_NAME)]
         IN  get_fk_constraints_from(rows, k + 1,
                IF at # {}
                THEN [constraints EXCEPT ![CHOOSE i \in at : TRUE] = new_cons]
                ELSE Append(constraints, new_cons))

\* db_get_fk_constraints: <<>> stands for None, as falsy as the empty dict
db_get_fk_constraints(rows) == get_fk_constraints_from(rows, 1, <<>>)

\* db_remove_fk_constraints: its statements
db_remove_fk_constraints(constraints, sheet) ==
    [i \in 1..Len(constraints) |->
        Issued("DROP FOREIGN KEY", sheet, 0, constraints[i].name)]

\* The constraint that ALTER TABLE table_name ADD FOREIGN KEY name
\* (table_column) REFERENCES ... (ref_columns) declares
Readded(cons) ==
    [name |-> cons.name, table_name |-> cons.table_name,
     columns |-> <<cons.table_column>>, ref_columns |-> cons.ref_columns]

\* The server takes a foreign key of as many columns as it references
Declarable(fk) == Len(fk.columns) = Len(fk.ref_columns)

\* db_restore_fk_constraints from the entry k on: the statements executed
\* and the constraints added, until a statement the server refuses
RECURSIVE restore_fk_constraints_from(_, _, _, _, _)
restore_fk_constraints_from(constraints, k, sheet, fks, stmts) ==
    IF k > Len(constraints) THEN [out |-> "ok", fks |-> fks, stmts |-> stmts]
    ELSE LET stmt == Issued("ADD FOREIGN KEY", sheet, 0, constraints[k].name)
         IN  IF Declarable(Readded(constraints[k]))
             THEN restore_fk_constraints_from(constraints, k + 1, sheet,
                      Append(fks, Readded(constraints[k])), Append(stmts, stmt))
             ELSE [out |-> "DatabaseError", fks |-> fks, stmts |-> Append(stmts, stmt)]

db_restore_fk_constraints(constraints, sheet) ==
    restore_fk_constraints_from(constraints, 1, sheet, <<>>, <<>>)

\* The rows a sheet or a feature query can hold
Ids == {NoneInt, 1, 2}
Values == {None, <<"a">>, <<"b">>}
Points(geom_type) == IF geom_type = "" THEN {<<>>} ELSE {<<0, 0>>, <<1, 0>>}
DataRows(geom_type) ==
    {[id |-> i, v |-> v, pt |-> p] : i \in Ids, v \in Values, p \in Points(geom_type)}
RowsUpTo(n, geom_type) ==
    UNION {[1..k -> DataRows(geom_type)] : k \in 1..n}

\* The table before the load: empty, or the row 1 stored by an earlier load
StoredRow(geom_type) ==
    [id |-> 1, v |-> <<"a">>,
     g |-> IF geom_type = "" THEN <<>> ELSE <<0, 0, DEFAULT_GEOM_EPSG>>]
Tables(geom_type) == {<<>>, <<StoredRow(geom_type)>>}

\* The options of a load; what no loader reads keeps its default
LoadOptions ==
    {o \in [loader : Sheets \cup Esri, force : BOOLEAN, reset : BOOLEAN,
            geometry_epsg : Epsgs, wkid : Epsgs, GEOM_CAN_TRANSFORM : BOOLEAN] :
        /\ o.loader = "process_sheets" => ~o.reset
        /\ o.loader \in Sheets => o.wkid = DEFAULT_GEOM_EPSG}

\* The most worksheets of a workbook.
MaxSheets == 2

\* The connection: the table, its geometry column, the foreign keys that
\* reference it, db_conn.epsg and the server's version
Connections ==
    {c \in [table : UNION {Tables(g) : g \in {"", "POINT", "POLYGON"}},
            geom_type : {"", "POINT", "POLYGON"},
            fks : {<<>>, <<FkSingle>>, <<FkComposite>>, <<FkSingle, FkSecond>>,
                   <<FkComposite, FkSingle>>},
            epsg : {DEFAULT_GEOM_EPSG},
            version_major : {5, 8}] :
        c.table \in Tables(c.geom_type)}

\* The loads told apart: what only a point column, only a reset or only a
\* difference of EPSG codes makes matter is varied with it alone.  A reset
\* finds the table filled.
Loadable(o, c) ==
    /\ c.geom_type = "POINT"
        \/ (o.geometry_epsg = DEFAULT_GEOM_EPSG /\ o.wkid = DEFAULT_GEOM_EPSG)
    /\ o.reset \/ c.fks = <<>>
    /\ o.reset => c.table # <<>>
    /\ o.geometry_epsg # c.epsg \/ c.version_major = 8
    /\ \/ (o.loader \in Sheets /\ o.geometry_epsg # c.epsg)
       \/ (o.loader \in Esri /\ o.wkid # c.epsg)
       \/ o.GEOM_CAN_TRANSFORM

\* load_excel_file hands every worksheet of the workbook to process_sheet;
\* the other loaders load one sheet, feature layer or table.  The worksheets
\* of a workbook are tabs of the same table that hold the same rows.
Worksheets(o) == IF o.loader = "process_sheet" THEN 1..MaxSheets ELSE {1}

RowsInit ==
    /\ ld_opts \in LoadOptions
    /\ ld_conn \in {c \in Connections : Loadable(ld_opts, c)}
    /\ ld_rows \in RowsUpTo(MaxRows, ld_conn.geom_type)
    /\ ld_worksheets \in Worksheets(ld_opts)
    /\ ld_sheet = 1
    /\ ld_pos = 1
    /\ ld_geom_col_info = NoGeomInfo
    /\ saved_constraints = <<>>
    /\ skipped_rows = 0
    /\ added_updated_rows = 0
    /\ ld_log = <<>>
    /\ ld_status = "start"

RowsIdle ==
    /\ ld_opts = [loader |-> "process_sheet", force |-> FALSE, reset |-> FALSE,
                  geometry_epsg |-> DEFAULT_GEOM_EPSG, wkid |-> DEFAULT_GEOM_EPSG,
                  GEOM_CAN_TRANSFORM |-> TRUE]
    /\ ld_conn = [table |-> <<>>, geom_type |-> "", fks |-> <<>>,
                  epsg |-> DEFAULT_GEOM_EPSG, version_major |-> 8]
    /\ ld_rows = <<>>
    /\ ld_worksheets = 1
    /\ ld_sheet = 1
    /\ ld_pos = 1
    /\ ld_geom_col_info = NoGeomInfo
    /\ saved_constraints = <<>>
    /\ skipped_rows = 0
    /\ added_updated_rows = 0
    /\ ld_log = <<>>
    /\ ld_status = "idle"

\* The reset of process_sheet and of process_esri_data: the constraints that
\* reference the table are read and dropped, and the table truncated
ResetStatements(fks, sheet) ==
    <<Issued("SELECT KEY_COLUMN_USAGE", sheet, 0, "")>>
    \o db_remove_fk_constraints(db_get_fk_constraints(key_column_usage(fks)), sheet)
    \o <<Issued("TRUNCATE TABLE", sheet, 0, "")>>

\* A sheet or table up to its row loop: the geometry lookup of the sheet
\* loaders, whose ValueError leaves the loader, then the reset
StartLoad ==
    /\ ld_status = "start"
    /\ \E info \in {IF ld_opts.loader \in Sheets
                    THEN get_col_info(ld_conn, ld_conn.geom_type # "",
                                      ld_opts.geometry_epsg)
                    ELSE Returned(NoGeomInfo)} :
        IF info.out # "ok"
        THEN /\ ld_status' = info.out
             /\ ld_log' = Append(ld_log, Issued("get_col_info", ld_sheet, 0, ""))
             /\ UNCHANGED <<ld_conn, ld_geom_col_info, saved_constraints>>
        ELSE /\ ld_status' = "rows"
             /\ ld_geom_col_info' = info.ret
             /\ ld_log' = ld_log
                          \o (IF ld_opts.loader \in Sheets
                              THEN <<Issued("get_col_info", ld_sheet, 0, "")>>
                              ELSE <<>>)
                          \o (IF ld_opts.reset THEN ResetStatements(ld_conn.fks, ld_sheet)
                              ELSE <<>>)
             /\ saved_constraints' =
                    IF ld_opts.reset
                    THEN db_get_fk_constraints(key_column_usage(ld_conn.fks))
                    ELSE <<>>
             /\ ld_conn' = IF ld_opts.reset
                           THEN [ld_conn EXCEPT !.table = <<>>, !.fks = <<>>]
                           ELSE ld_conn
    /\ skipped_rows' = 0
    /\ added_updated_rows' = 0
    /\ UNCHANGED <<ld_opts, ld_rows, ld_worksheets, ld_sheet, ld_pos, notRows>>

\* The row was processed: the next row
RowProcessed(done) ==
    /\ ld_status' = "rows"
    /\ ld_pos' = ld_pos + 1
    /\ ld_conn' = [ld_conn EXCEPT !.table = done.table]
    /\ ld_log' = ld_log \o Tagged(done.stmts, ld_sheet, ld_pos)

\* An exception leaves the loader: the feature layer loop of
\* process_esri_data restores the saved constraints on a ValueError first
\* (restored, which may raise in its turn), the other loops restore nothing
RowRaised(done, restored) ==
    /\ ld_pos' = ld_pos
    /\ IF ld_opts.loader = "esri_layer" /\ done.out = "ValueError"
       THEN /\ ld_status' = IF restored.out = "ok" THEN done.out ELSE restored.out
            /\ ld_conn' = [ld_conn EXCEPT !.table = done.table,
                                          !.fks = @ \o restored.fks]
            /\ ld_log' = ld_log \o Tagged(done.stmts, ld_sheet, ld_pos)
                                \o restored.stmts
       ELSE /\ ld_status' = done.out
            /\ ld_conn' = [ld_conn EXCEPT !.table = done.table]
            /\ ld_log' = ld_log \o Tagged(done.stmts, ld_sheet, ld_pos)

\* One pass of the row loop
ProcessRow ==
    /\ ld_status = "rows"
    /\ ld_pos <= Len(ld_rows)
    /\ \E done \in {process_row(ld_conn.table, ld_rows[ld_pos], ld_geom_col_info,
                                ld_conn, ld_opts)} :
        /\ skipped_rows' = IF done.out = "skipped" THEN skipped_rows + 1
                           ELSE skipped_rows
        /\ added_updated_rows' = IF done.out = "added" THEN added_updated_rows + 1
                                 ELSE added_updated_rows
        /\ IF done.out \in {"added", "skipped"}
           THEN RowProcessed(done)
           ELSE RowRaised(done, db_restore_fk_constraints(saved_constraints, ld_sheet))
    /\ UNCHANGED <<ld_opts, ld_rows, ld_worksheets, ld_sheet, ld_geom_col_info,
                   saved_constraints, notRows>>

\* After the last row of a sheet or table: the saved constraints are
\* restored, and load_excel_file goes on to the next worksheet
FinishLoad ==
    /\ ld_status = "rows"
    /\ ld_pos > Len(ld_rows)
    /\ \E restored \in {db_restore_fk_constraints(saved_constraints, ld_sheet)} :
        /\ ld_conn' = [ld_conn EXCEPT !.fks = @ \o restored.fks]
        /\ ld_log' = ld_log \o restored.stmts
        /\ IF restored.out # "ok"
           THEN /\ ld_status' = restored.out
                /\ UNCHANGED <<ld_sheet, ld_pos>>
           ELSE IF ld_sheet < ld_worksheets
           THEN /\ ld_status' = "start"
                /\ ld_sheet' = ld_sheet + 1
                /\ ld_pos' = 1
           ELSE /\ ld_status' = "loaded"
                /\ UNCHANGED <<ld_sheet, ld_pos>>
    /\ UNCHANGED <<ld_opts, ld_rows, ld_worksheets, ld_geom_col_info,
                   saved_constraints, skipped_rows, added_updated_rows, notRows>>

\* db_conn.commit() of load_excel_file: after the sheets, and in
\* data_xfer_excel after the ValueError of process_esri_data, which it
\* catches; every other exception leaves load_excel_file before the commit
Commit ==
    /\ \/ ld_status = "loaded"
       \/ (ld_status = "ValueError" /\ ld_opts.loader \in Esri)
    /\ ld_status' = "committed"
    /\ ld_log' = Append(ld_log, Issued("COMMIT", 0, 0, ""))
    /\ UNCHANGED <<ld_opts, ld_conn, ld_rows, ld_worksheets, ld_sheet, ld_pos,
                   ld_geom_col_info, saved_constraints, skipped_rows,
                   added_updated_rows, notRows>>

-----------------------------------------------------------------------------
(* One call of transform_points or of transform_geom_cols.                 *)

\* The most coordinate values handed to a call.
MaxCoords == 3

Coords == {0, 1}
CoordValues == UNION {[1..k -> Coords] : k \in 0..MaxCoords}

NotCalled == [out |-> "none", ret |-> <<>>]

FnIdle ==
    /\ fn_name = ""
    /\ fn_args = <<>>
    /\ fn_ret = NotCalled

\* The arguments of the call and the state of the module: whether the osgeo
\* import succeeded
TransformInit ==
    /\ fn_name = ""
    /\ fn_args \in [from_epsg : Epsgs, to_epsg : Epsgs, values : CoordValues,
                    GEOM_CAN_TRANSFORM : BOOLEAN]
    /\ fn_ret = NotCalled

CallTransformPoints ==
    /\ fn_name = ""
    /\ fn_name' = "transform_points"
    /\ fn_ret' = transform_points(fn_args.from_epsg, fn_args.to_epsg, fn_args.values,
                                  fn_args.GEOM_CAN_TRANSFORM)
    /\ UNCHANGED <<fn_args, notFn>>

\* The row whose point columns hold the values; the other columns come back
\* as they went in
CallTransformGeomCols ==
    /\ fn_name = ""
    /\ fn_name' = "transform_geom_cols"
    /\ fn_ret' = transform_geom_cols([id |-> 1, v |-> <<"a">>, pt |-> fn_args.values],
                                     [NoGeomInfo EXCEPT !.found = TRUE],
                                     fn_args.from_epsg, fn_args.to_epsg,
                                     fn_args.GEOM_CAN_TRANSFORM)
    /\ UNCHANGED <<fn_args, notFn>>

-----------------------------------------------------------------------------
(* a2database.py: the statements of A2Database.check_data_exists and        *)
(* add_update_data.  Column names are strings; a statement is the list of   *)
(* its columns, the placeholder of each, and the values bound to them.      *)

\* str.lower()
lower(s) == [i \in 1..Len(s) |-> IF s[i] \in DOMAIN Lower THEN Lower[s[i]] ELSE s[i]]

\* list.index(x): 0 stands for its ValueError
index(seq, x) ==
    IF \E k \in 1..Len(seq) : seq[k] = x
    THEN CHOOSE k \in 1..Len(seq) : seq[k] = x /\ \A j \in 1..(k - 1) : seq[j] # x
    ELSE 0

\* col_alias: a set of [alias, column]; the name a column name is switched to
aliased(col_alias, one_name) ==
    IF \E a \in col_alias : a.alias = one_name
    THEN (CHOOSE a \in col_alias : a.alias = one_name).column
    ELSE one_name

\* geom_col_info of a table with a point column, as get_col_info returns it
PointInfo == [table_column |-> <<"g">>, col_sql |-> "ST_GeomFromText('POINT(%s %s)')",
              sheet_cols |-> << <<"x">>, <<"y">> >>]

NoInfo == [table_column |-> <<>>, col_sql |-> "", sheet_cols |-> <<>>]

in_seq(seq, x) == \E k \in 1..Len(seq) : seq[k] = x

\* a statement: kind, the columns named, the placeholder of each, the column
\* of the WHERE clause of an UPDATE, the values bound
Statement(kind, cols, types, where, values) ==
    [kind |-> kind, cols |-> cols, types |-> types, where |-> where, values |-> values]

\* the values of the columns names, ValueError when one is not in col_names
values_of(col_names, col_values, names) ==
    IF \E k \in 1..Len(names) : index(col_names, names[k]) = 0
    THEN Raised("ValueError")
    ELSE Returned([k \in 1..Len(names) |-> col_values[index(col_names, names[k])]])

remove_at(seq, k) == SubSeq(seq, 1, k - 1) \o SubSeq(seq, k + 1, Len(seq))

add_update_data_query(col_names, col_values, col_alias, geom_col_info, update, primary_key) ==
    LET pk == _sqlstr(primary_key)
        has_geom == geom_col_info # NoInfo
        plain == SelectSeq(col_names, LAMBDA n : ~in_seq(geom_col_info.sheet_cols, n))
        names == IF has_geom THEN Append(plain, geom_col_info.table_column) ELSE col_names
        query_types == [k \in 1..Len(names) |->
                           IF has_geom /\ k = Len(names) THEN geom_col_info.col_sql
                           ELSE "%s"]
        query_values == IF has_geom
                        THEN values_of(col_names, col_values, plain).ret
                             \o values_of(col_names, col_values,
                                          geom_col_info.sheet_cols).ret
                        ELSE col_values
        query_cols == [k \in 1..Len(names) |-> aliased(col_alias, names[k])]
        is_key(k) == lower(query_cols[k]) = lower(pk)
        keys == {k \in 1..Len(query_cols) : is_key(k)}
        set_idx == SelectSeq([k \in 1..Len(query_cols) |-> k], LAMBDA k : ~is_key(k))
        primary_key_index == CHOOSE k \in keys : \A j \in keys : k <= j
    IN  IF ~update
        THEN Returned(Statement("INSERT",
                                [k \in 1..Len(query_cols) |-> _sqlstr(query_cols[k])],
                                query_types, <<>>, query_values))
        ELSE IF keys = {} THEN Raised("StopIteration")
        ELSE IF index(col_names, pk) = 0 THEN Raised("ValueError")
        ELSE Returned(Statement("UPDATE",
                                [k \in 1..Len(set_idx) |-> _sqlstr(query_cols[set_idx[k]])],
                                [k \in 1..Len(set_idx) |-> query_types[set_idx[k]]],
                                pk,
                                Append(remove_at(query_values, primary_key_index),
                                       col_values[index(col_names, pk)])))

\* col_alias is {} when the caller passes none (if col_alias: takes None and
\* the empty dictionary alike); primary_key is <<>> when the caller passes none
check_data_exists_query(col_names, col_values, col_alias, geom_col_info, primary_key) ==
    LET has_geom == geom_col_info # NoInfo
        by_key == primary_key # <<>>
        cols == IF by_key THEN <<primary_key>>
                ELSE SelectSeq(col_names,
                               LAMBDA n : ~in_seq(geom_col_info.sheet_cols, n))
        check_cols == IF col_alias # {}
                      THEN [k \in 1..Len(cols) |-> aliased(col_alias, cols[k])]
                      ELSE cols
        query_values == values_of(col_names, col_values, check_cols)
        with_geom == has_geom /\ ~by_key
    IN  IF Len(col_names) # Len(col_values) THEN Raised("ValueError")
        ELSE IF by_key /\ ~in_seq(col_names, primary_key) THEN Raised("ValueError")
        ELSE IF query_values.out # "ok" THEN query_values
        ELSE Returned(Statement("SELECT",
                [k \in 1..Len(check_cols) |-> _sqlstr(check_cols[k])]
                    \o (IF with_geom THEN <<_sqlstr(geom_col_info.table_column)>>
                        ELSE <<>>),
                [k \in 1..Len(check_cols) |-> "%s"]
                    \o (IF with_geom THEN <<geom_col_info.col_sql>> ELSE <<>>),
                <<>>,
                query_values.ret
                    \o (IF with_geom
                        THEN values_of(col_names, col_values,
                                       geom_col_info.sheet_cols).ret
                        ELSE <<>>)))

\* The table: the primary key id, the column v, and the point g when it has
\* one.  The comments of create_db give id the alias key and v the alias val.
AliasComments == {[alias |-> <<"k", "e", "y">>, column |-> <<"i", "d">>],
                  [alias |-> <<"v", "a", "l">>, column |-> <<"v">>]}

\* The headers a sheet can give the columns id and v: the name of the column,
\* in the case of the database or not, or the alias the table declares
KeyHeaders(col_alias) ==
    {<<"i", "d">>, <<"I", "D">>} \cup {a.alias : a \in {b \in col_alias : b.column = <<"i", "d">>}}
ValHeaders(col_alias) ==
    {<<"v">>} \cup {a.alias : a \in {b \in col_alias : b.column = <<"v">>}}

\* The sheets: the key first or last, the coordinates after the columns
SheetsOf(col_alias, has_geom) ==
    {[col_names |-> (IF s.key_first THEN <<s.key, s.val>> ELSE <<s.val, s.key>>)
                        \o (IF has_geom THEN PointInfo.sheet_cols ELSE <<>>),
      col_values |-> (IF s.key_first THEN <<s.id, s.v>> ELSE <<s.v, s.id>>)
                        \o (IF has_geom THEN <<s.x, 31>> ELSE <<>>),
      primary_key |-> s.key] :
        s \in [key : KeyHeaders(col_alias), val : ValHeaders(col_alias),
               key_first : BOOLEAN, id : {1, 2}, v : {11, 12}, x : {21, 22}]}

\* A call by a loader: the aliases get_col_info read from the table, the
\* sheet, and what the loader passes on (the loaders of this repository pass
\* check_data_exists no aliases; populate_from_excel passes it the key)
SqlInit ==
    /\ fn_name = ""
    /\ fn_args \in {a \in [col_alias : SUBSET AliasComments, has_geom : BOOLEAN,
                           sheet : UNION {SheetsOf(c, g) : c \in SUBSET AliasComments,
                                                          g \in BOOLEAN},
                           update : BOOLEAN, by_key : BOOLEAN, pass_alias : BOOLEAN] :
                        a.sheet \in SheetsOf(a.col_alias, a.has_geom)}
    /\ fn_ret = NotCalled

CallAddUpdateData ==
    /\ fn_name = ""
    /\ fn_name' = "add_update_data"
    /\ fn_ret' = add_update_data_query(fn_args.sheet.col_names, fn_args.sheet.col_values,
                                       fn_args.col_alias,
                                       IF fn_args.has_geom THEN PointInfo ELSE NoInfo,
                                 fn_args.update, fn_args.sheet.primary_key)
    /\ UNCHANGED <<fn_args, notFn>>

CallCheckDataExists ==
    /\ fn_name = ""
    /\ fn_name' = "check_data_exists"
    /\ fn_ret' = check_data_exists_query(fn_args.sheet.col_names, fn_args.sheet.col_values,
                                   IF fn_args.pass_alias THEN fn_args.col_alias ELSE {},
                                   IF fn_args.has_geom THEN PointInfo ELSE NoInfo,
                                   IF fn_args.by_key THEN fn_args.sheet.primary_key
                                   ELSE <<>>)
    /\ UNCHANGED <<fn_args, notFn>>

----------------------------------------------------------------------------
(* The specifications: each component on its own, the others idle.         *)

InitSanitize == SanInit /\ ColsIdle /\ IdxIdle /\ DDLIdle /\ TrIdle /\ RowsIdle /\ FnIdle

NextSanitize == Call_sqlstr \/ CallSqlstr

SpecSanitize == InitSanitize /\ [][NextSanitize]_vars

InitCols == ColsInit /\ SanIdle /\ IdxIdle /\ DDLIdle /\ TrIdle /\ RowsIdle /\ FnIdle

NextCols ==
    \/ AlterLiveType
    \/ AlterLiveNullable
    \/ AlterLiveKey
    \/ AlterLiveDefault
    \/ AddLiveColumn
    \/ DropLiveColumn
    \/ CallTableColsMatch

SpecCols == InitCols /\ [][NextCols]_vars

InitIndex == IdxInit /\ SanIdle /\ ColsIdle /\ DDLIdle /\ TrIdle /\ RowsIdle /\ FnIdle

\* One call; once it has returned nothing more happens.
NextIndex == CallFindMatchingIndex

SpecIndex == InitIndex /\ [][NextIndex]_vars

InitDDL == DDLInit /\ SanIdle /\ ColsIdle /\ IdxIdle /\ TrIdle /\ RowsIdle /\ FnIdle

NextDDL ==
    \/ StartRun
    \/ ProcessTable
    \/ ProcessIndexes
    \/ ProcessValues
    \/ TouchNullable
    \/ TouchDefault
    \/ TouchRow

SpecDDL == InitDDL /\ [][NextDDL]_vars

InitTranslate == TrInit /\ SanIdle /\ ColsIdle /\ IdxIdle /\ DDLIdle /\ RowsIdle /\ FnIdle

NextTranslate == TranslateLayer \/ TranslateTable \/ CallUpdateDatabase

SpecTranslate == InitTranslate /\ [][NextTranslate]_vars

InitRows == RowsInit /\ SanIdle /\ ColsIdle /\ IdxIdle /\ DDLIdle /\ TrIdle /\ FnIdle

NextRows == StartLoad \/ ProcessRow \/ FinishLoad \/ Commit

SpecRows == InitRows /\ [][NextRows]_vars

InitTransform == TransformInit /\ SanIdle /\ ColsIdle /\ IdxIdle /\ DDLIdle /\ TrIdle /\ RowsIdle

NextTransform == CallTransformPoints \/ CallTransformGeomCols

SpecTransform == InitTransform /\ [][NextTransform]_vars

InitSql == SqlInit /\ SanIdle /\ ColsIdle /\ IdxIdle /\ DDLIdle /\ TrIdle /\ RowsIdle

NextSql == CallAddUpdateData \/ CallCheckDataExists

SpecSql == InitSql /\ [][NextSql]_vars

----------------------------------------------------------------------------
(* Claims                                                                  *)

Forbidden == {";", "(", ")", "\"", "'", "%", "*"}

IsAllowed(c) == c \notin Forbidden

Sanitized ==
    \/ san_pc = "_sqlstr"
    \/ san_pc = "sqlstr" /\ replacement = None

\* C1: sanitize(s) removes every occurrence of ; ( ) " ' % * and nothing
\* else (the other characters keep their order), and sanitizing the result
\* again returns it unchanged.
C1_SanitizeRemovesExactly ==
    Sanitized =>
        /\ ret_str = SelectSeq(string, IsAllowed)
        /\ _sqlstr(ret_str) = ret_str
        /\ sqlstr(ret_str, None) = ret_str

C1_Witness ==
    /\ Sanitized
    /\ Len(string) = MaxStrLen
    /\ \E i \in 1..Len(string) : string[i] \in Forbidden
    /\ \E i \in 1..Len(string) : string[i] \notin Forbidden
    /\ Len(ret_str) < Len(string)

ExactlyOnePrimary(cols) ==
    Cardinality({k \in 1..Len(cols) : cols[k].primary = "True"}) = 1

\* The one alteration made changed an attribute that the column definition
\* declares: the type, or a flag or default whose key the definition holds
\* (a default that differs in more than letter case).
DeclaredChange(alt) ==
    LET col == col_info[alt[2]] IN
    \/ alt[1] = "type"
    \/ alt[1] = "nullable" /\ col.null_allowed # "Absent"
    \/ alt[1] = "primary" /\ col.primary # "Absent"
    \/ /\ alt[1] = "default"
       /\ col.default \notin {Absent, None}
       /\ casefold(db_cols[alt[2]].column_default) # casefold(col.default)

\* C2: for a column list with exactly one primary column, table_cols_match
\* returns true against the table as created, and returns false (it does not
\* raise) once one declared attribute of one live column is changed, the
\* default changed to NULL included.
C2_IdenticalTrueAlteredFalse ==
    (tcm_ret # "none" /\ ExactlyOnePrimary(col_info)) =>
        /\ altered = <<>> => tcm_ret = "true"
        /\ (Len(altered) = 1 /\ DeclaredChange(altered[1])) => tcm_ret = "false"

SpecNames == {_sqlstr(col_info[k].name) : k \in 1..Len(col_info)}
LiveNames == {db_cols[i].column_name : i \in 1..Len(db_cols)}

\* Every live column has a same-named column definition that it matches.
EveryLiveColumnMatches ==
    \A i \in 1..Len(db_cols) :
        \E k \in 1..Len(col_info) :
            /\ _sqlstr(col_info[k].name) = db_cols[i].column_name
            /\ row_matches(db_cols[i], col_info[k]) = "true"

\* C3: table_cols_match returns true iff every live column matches its
\* same-named column definition and as many live columns matched as there
\* are definitions; a live column without a definition gives false, and a
\* definition without a live column gives false.
C3_TrueIffAllMatchAndCount ==
    tcm_ret # "none" =>
        /\ (tcm_ret = "true") <=>
               (EveryLiveColumnMatches /\ Len(db_cols) = Len(col_info))
        /\ (LiveNames \ SpecNames # {}) => tcm_ret = "false"
        /\ (SpecNames \ LiveNames # {}) => tcm_ret = "false"

\* the live indexes and their column sets, read off the rows
LiveIndexes == {stat_rows[i][1] : i \in 1..Len(stat_rows)}
LiveIndexColumns(n) == {stat_rows[i][2] : i \in {j \in 1..Len(stat_rows) : stat_rows[j][1] = n}}
Covering == {n \in LiveIndexes : index_column_names \subseteq LiveIndexColumns(n)}
FirstRowOf(n) == CHOOSE i \in 1..Len(stat_rows) :
                     /\ stat_rows[i][1] = n
                     /\ \A j \in 1..(i - 1) : stat_rows[j][1] # n

\* C4: find_matching_index returns None when no live index covers the
\* requested column set, and otherwise the name of the first live index, in
\* catalog order, whose columns are a superset of it, whatever their order.
C4_FindMatchingIndex ==
    fmi_ret # <<>> =>
        /\ Covering = {} <=> fmi_ret[1] = None
        /\ Covering # {} =>
            /\ fmi_ret[1] \in Covering
            /\ \A n \in Covering : FirstRowOf(fmi_ret[1]) <= FirstRowOf(n)

\* A non-covering index comes first, and the covering one holds more columns
\* than asked for, the asked one not first.
C4_Witness ==
    /\ fmi_ret # <<>>
    /\ fmi_ret[1] # None
    /\ stat_rows[1][1] \notin Covering
    /\ Cardinality(LiveIndexColumns(fmi_ret[1])) > Cardinality(index_column_names)
    /\ stat_rows[FirstRowOf(fmi_ret[1])][2] \notin index_column_names

----------------------------------------------------------------------------
(* Claims about the DDL executor                                           *)

DDLStatements == {"ALTER TABLE DROP FOREIGN KEY", "DROP TABLE", "CREATE TABLE",
                  "CREATE VIEW", "DROP VIEW"}
Modifying == DDLStatements \cup {"DROP INDEX", "CREATE INDEX", "INSERT", "UPDATE", "COMMIT"}
Queries == {"SELECT TABLES", "SELECT COLUMNS", "SELECT KEY_COLUMN_USAGE",
            "SELECT STATISTICS", "SELECT COUNT"}

\* where the last handler executed statements of these kinds
Executed(kinds) == {i \in 1..Len(log) : log[i].stmt \in kinds}
Logged(msg) == \E i \in 1..Len(logger) : logger[i] = msg

TableCall == call.op = "db_process_table"

\* C5: when the table exists, the comparator reports a match and force is
\* false, db_process_table executes no DDL statement (no DROP FOREIGN KEY,
\* DROP TABLE, CREATE TABLE, CREATE VIEW or DROP VIEW) and logs that the
\* table already matches.
C5_MatchNoForceNoDDL ==
    (TableCall /\ call.existed /\ call.verdict = "true" /\ ~opts.force) =>
        /\ Executed(DDLStatements) = {}
        /\ Logged("Table already exists and matches definition")

\* A table with a foreign key and a view, found matching by a second run
\* that may modify the database.
C5_Witness ==
    /\ TableCall /\ call.existed /\ call.verdict = "true" /\ ~opts.force
    /\ ~opts.readonly /\ call.new_fks /\ call.view_existed
    /\ runs = MaxRuns

\* The table the last db_process_table call raised on: update_database
\* stays at it.
RaisedOn == schema[pc.s].tables[pc.t]

ViewUnsupported(table) ==
    \E k \in 1..Len(table.columns) :
        /\ table.columns[k].foreign_key = <<>>
        /\ table.columns[k].is_spatial = "True"
        /\ ~view_spatial_supported(table.columns[k])

\* C6: when the table exists, the comparator reports a mismatch and force is
\* false, then without readonly db_process_table raises the schema conflict
\* before any statement that modifies the database and the run exits with
\* status 200; with readonly the conflict is logged, the run is not ended by
\* it (it goes on unless the view of the table cannot be built) and no
\* statement that modifies the database is executed.
C6_ConflictFatalUnlessReadonly ==
    (TableCall /\ call.existed /\ call.verdict = "false" /\ ~opts.force) =>
        /\ ~opts.readonly =>
               /\ run_status = "exit200"
               /\ Executed(Modifying) = {}
        /\ opts.readonly =>
               /\ Logged("READONLY: table exists and would need the force flag")
               /\ run_status # "exit200"
               /\ run_status = "running"
                      \/ (call.new_fks /\ ~opts.noviews /\ ViewUnsupported(RaisedOn))
               /\ Executed(Modifying) = {}

\* The run is ended by the conflict on a table that other tables reference.
C6_Witness ==
    /\ TableCall /\ call.existed /\ call.verdict = "false"
    /\ ~opts.force /\ ~opts.readonly
    /\ run_status = "exit200"
    /\ call.referenced_by # {}

\* the place of the one statement of a kind the last handler executed
At(kind) == CHOOSE i \in 1..Len(log) : log[i].stmt = kind

\* C7: with readonly false, db_process_table executes CREATE TABLE iff the
\* table was absent or force is set; a present table with force set is
\* dropped and then created again; an absent table is created without any
\* drop.
C7_CreateIffAbsentOrForce ==
    (TableCall /\ ~opts.readonly) =>
        /\ Executed({"CREATE TABLE"}) # {} <=> (~call.existed \/ opts.force)
        /\ (call.existed /\ opts.force) =>
               /\ Executed({"DROP TABLE"}) # {}
               /\ Executed({"CREATE TABLE"}) # {}
               /\ At("DROP TABLE") < At("CREATE TABLE")
        /\ ~call.existed =>
               Executed({"DROP TABLE", "ALTER TABLE DROP FOREIGN KEY"}) = {}

\* C8: in readonly mode no handler of a run, db_process_table,
\* db_process_indexes or db_process_values, executes a statement that
\* modifies the database or a commit: every statement it executes is a
\* catalog or existence query, and the database is as it was.
C8_ReadonlyModifiesNothing ==
    [][(run_status = "running" /\ opts.readonly) =>
           /\ db' = db
           /\ \A i \in 1..Len(log') : log'[i].stmt \in Queries]_vars

\* A readonly run with force set went through the tables, indexes and values
\* of every layer of a populated database.
C8_Witness ==
    /\ opts.readonly /\ opts.force
    /\ run_status = "done"
    /\ call.op = "db_process_values"
    /\ Len(log) > 0
    /\ Len(schema) = MaxLayers
    /\ \A t \in TableNames : db.tables[t] # <<>>
    /\ db.views # {}

\* The foreign keys the ALTER statements of the last handler dropped
AlteredFks ==
    {[table |-> log[i].on, name |-> log[i].name] :
         i \in Executed({"ALTER TABLE DROP FOREIGN KEY"})}

\* C9: drop_table first queries the foreign keys that reference the table,
\* then executes ALTER TABLE ... DROP FOREIGN KEY for each of them, and only
\* after all of them DROP TABLE; in the force path of db_process_table
\* CREATE TABLE comes after DROP TABLE.  In readonly mode the query is the
\* only statement of the sequence that is executed.
C9_DropOrder ==
    (TableCall /\ Executed({"SELECT KEY_COLUMN_USAGE"}) # {}) =>
        /\ Cardinality(Executed({"SELECT KEY_COLUMN_USAGE"})) = 1
        /\ \A i \in Executed({"ALTER TABLE DROP FOREIGN KEY", "DROP TABLE"}) :
               At("SELECT KEY_COLUMN_USAGE") < i
        /\ \A i \in Executed({"ALTER TABLE DROP FOREIGN KEY"}) :
               \A j \in Executed({"DROP TABLE"}) : i < j
        /\ opts.readonly =>
               Executed({"ALTER TABLE DROP FOREIGN KEY", "DROP TABLE"}) = {}
        /\ ~opts.readonly =>
               /\ Cardinality(Executed({"DROP TABLE"})) = 1
               /\ AlteredFks = call.referenced_by
               /\ Cardinality(Executed({"ALTER TABLE DROP FOREIGN KEY"}))
                      = Cardinality(call.referenced_by)
               /\ opts.force =>
                      /\ Executed({"CREATE TABLE"}) # {}
                      /\ At("DROP TABLE") < At("CREATE TABLE")

\* A lookup table that the tables of two layers reference is dropped and
\* created again.
C9_Witness ==
    /\ TableCall /\ ~opts.readonly /\ opts.force
    /\ Cardinality(call.referenced_by) >= 2
    /\ Executed({"DROP TABLE"}) # {}
    /\ Executed({"CREATE TABLE"}) # {}

\* C10: db_process_table creates the view <table>_view only when the table
\* it just created introduced a foreign key and noviews is not set; with
\* noviews no view is created, and when the created table has a foreign key
\* and force is set too, an existing view of that name is dropped; a table
\* created without foreign keys gets no view statement at all.
C10_ViewOnlyWithForeignKeys ==
    TableCall =>
        /\ Executed({"CREATE VIEW"}) # {} =>
               /\ Executed({"CREATE TABLE"}) # {}
               /\ At("CREATE TABLE") < At("CREATE VIEW")
               /\ call.new_fks
               /\ ~opts.noviews
        /\ opts.noviews => Executed({"CREATE VIEW"}) = {}
        /\ (opts.noviews /\ opts.force /\ Executed({"CREATE TABLE"}) # {}
               /\ call.new_fks /\ call.view_existed) =>
               /\ Executed({"DROP VIEW"}) # {}
               /\ At("CREATE TABLE") < At("DROP VIEW")
        /\ Executed({"DROP VIEW"}) # {} =>
               /\ opts.noviews /\ opts.force /\ call.new_fks /\ call.view_existed
               /\ Executed({"CREATE TABLE"}) # {}
        /\ ~call.new_fks => Executed({"CREATE VIEW", "DROP VIEW"}) = {}

\* With noviews and force the view that an earlier run created is dropped.
C10_Witness ==
    /\ TableCall /\ opts.noviews /\ opts.force /\ ~opts.readonly
    /\ call.new_fks /\ call.view_existed
    /\ Executed({"CREATE TABLE"}) # {}
    /\ Executed({"DROP VIEW"}) # {}

\* the columns of the index of a name on a table, and the names of the indexes
ColumnsOfIndex(d, tn, nm) ==
    {d.indexes[tn][i][2] : i \in {j \in 1..Len(d.indexes[tn]) : d.indexes[tn][j][1] = nm}}
NamesOfIndexes(d, tn) == {d.indexes[tn][i][1] : i \in 1..Len(d.indexes[tn])}
IndexesStep == run_status = "running" /\ pc.phase = "indexes"

\* C11: db_process_indexes never executes DROP INDEX for the index named
\* PRIMARY, whatever the flags; and unless force is set it drops no index,
\* leaves every live index as it was, and creates an index only on a column
\* set that no live index (one that was there, or one it created before in
\* the same call) covers.
C11_CoveredIndexLeftAlone ==
    [][IndexesStep =>
           /\ \A i \in 1..Len(log') :
                  log'[i].stmt = "DROP INDEX" => log'[i].name # PRIMARY
           /\ ~opts.force =>
                  /\ \A i \in 1..Len(log') : log'[i].stmt # "DROP INDEX"
                  /\ \A tn \in TableNames :
                         /\ Len(db.indexes[tn]) <= Len(db'.indexes[tn])
                         /\ SubSeq(db'.indexes[tn], 1, Len(db.indexes[tn])) = db.indexes[tn]
                  /\ \A i \in 1..Len(log') :
                         (log'[i].stmt = "CREATE INDEX"
                             /\ ColumnsOfIndex(db', log'[i].on, log'[i].name) # {}) =>
                             \A nm \in NamesOfIndexes(db, log'[i].on) \cup
                                       {log'[j].name : j \in {k \in 1..(i - 1) :
                                            /\ log'[k].stmt = "CREATE INDEX"
                                            /\ log'[k].on = log'[i].on}} :
                                 ~(ColumnsOfIndex(db', log'[i].on, log'[i].name)
                                       \subseteq ColumnsOfIndex(db', log'[i].on, nm))]_vars

\* A second run without force finds every requested index covered, by
\* PRIMARY, by the foreign key's index and by the index the first run
\* created, and executes neither CREATE INDEX nor DROP INDEX.
C11_Witness ==
    /\ call.op = "db_process_indexes"
    /\ runs = MaxRuns /\ ~opts.force /\ ~opts.readonly
    /\ run_status \in {"running", "done"}
    /\ Cardinality(Executed({"SELECT STATISTICS"})) = 4
    /\ Executed({"CREATE INDEX", "DROP INDEX"}) = {}
    /\ \E tn \in TableNames : Cardinality(NamesOfIndexes(db, tn)) >= 3

\* The entities of the schema file in the order create_update_database
\* translates them, and those translated so far with what they became
PassOrder == schema_data.layers \o schema_data.tables
TranslatedSoFar == cud_layers \o cud_tables
Translations == 1..Len(TranslatedSoFar)
MainTable(ret) == ret.tables[Len(ret.tables)]
HasCodedDomain(field) ==
    /\ field.type = "esriFieldTypeString"
    /\ field.domain # <<>>
    /\ field.domain[1] = "codedValue"

\* the auxiliary table D of a translation: columns code (primary key), name
AuxiliaryTable(ret, D) ==
    \E k \in 1..(Len(ret.tables) - 1) :
        /\ ret.tables[k].name = D
        /\ Len(ret.tables[k].columns) = 2
        /\ ret.tables[k].columns[1].name = C_code
        /\ ret.tables[k].columns[1].primary = "True"
        /\ ret.tables[k].columns[2].name = C_name
        /\ ret.tables[k].columns[2].primary # "True"

\* the insert rows of D: one {name, code} per coded value, in their order
AuxiliaryRows(ret, D, codedValues) ==
    \E k \in 1..Len(ret.values) :
        /\ ret.values[k].table = D
        /\ Len(ret.values[k].values) = Len(codedValues)
        /\ \A j \in 1..Len(codedValues) :
               /\ DOMAIN ret.values[k].values[j] = {C_name, C_code}
               /\ ret.values[k].values[j][C_name] = codedValues[j].name
               /\ ret.values[k].values[j][C_code] = codedValues[j].code

\* C12: the translation of a string field with a codedValue domain named D
\* has (a) an auxiliary table D with the columns code, its primary key, and
\* name, (b) on the field's column a foreign key to D.code, and (c) one
\* insert row {name, code} per coded value, in the order of the domain.
C12_CodedDomainTranslation ==
    \A n \in Translations : \A i \in 1..Len(PassOrder[n].fields) :
        HasCodedDomain(PassOrder[n].fields[i]) =>
            /\ AuxiliaryTable(TranslatedSoFar[n], PassOrder[n].fields[i].domain[2])
            /\ MainTable(TranslatedSoFar[n]).columns[i].foreign_key
                   = <<PassOrder[n].fields[i].domain[2], C_code>>
            /\ AuxiliaryRows(TranslatedSoFar[n], PassOrder[n].fields[i].domain[2],
                             PassOrder[n].fields[i].domain[3])

IdentifierTypes == {"esriFieldTypeOID", "esriFieldTypeGlobalID", "esriFieldTypeGUID"}
DeclaredUniqueId(esri_schema) ==
    IF esri_schema.uniqueIdField = Absent THEN C_objectid ELSE esri_schema.uniqueIdField
PrimaryColumns(ret) ==
    {k \in 1..Len(MainTable(ret).columns) : MainTable(ret).columns[k].primary = "True"}

\* C13: in a translated table the field of type OID, GlobalID or GUID whose
\* name is the declared unique-id field is the primary key, and at most one
\* column is marked primary.
C13_UniqueIdIsPrimary ==
    \A n \in Translations :
        /\ \A i \in 1..Len(PassOrder[n].fields) :
               (/\ PassOrder[n].fields[i].type \in IdentifierTypes
                /\ PassOrder[n].fields[i].name = DeclaredUniqueId(PassOrder[n])) =>
                   i \in PrimaryColumns(TranslatedSoFar[n])
        /\ Cardinality(PrimaryColumns(TranslatedSoFar[n])) <= 1

\* the entity process_layer_table raised on
Failed == PassOrder[Len(TranslatedSoFar) + 1]
TranslationRaised == cud_status \in {"IndexError", "NameError"}
SpatialColumns(ret) ==
    {k \in 1..Len(MainTable(ret).columns) : MainTable(ret).columns[k].is_spatial = "True"}

\* C14: a layer with a geometry type is translated, with exactly one spatial
\* column, of type GEOMETRY when the geometry type is not one with a type of
\* its own; the null geometry type adds no column.
C14_GeometryColumn ==
    /\ TranslationRaised => (Failed.geometryType = "" \/ ~has_relationships(Failed))
    /\ \A n \in Translations :
           /\ PassOrder[n].geometryType \in {"", "esriGeometryNull"} =>
                  /\ SpatialColumns(TranslatedSoFar[n]) = {}
                  /\ Len(MainTable(TranslatedSoFar[n]).columns) = Len(PassOrder[n].fields)
           /\ PassOrder[n].geometryType \notin {"", "esriGeometryNull"} =>
                  /\ SpatialColumns(TranslatedSoFar[n]) = {Len(PassOrder[n].fields) + 1}
                  /\ Len(MainTable(TranslatedSoFar[n]).columns)
                         = Len(PassOrder[n].fields) + 1
                  /\ PassOrder[n].geometryType \notin
                         {"esriGeometryPoint", "esriGeometryPolygon"} =>
                         MainTable(TranslatedSoFar[n]).columns[Len(PassOrder[n].fields) + 1].type
                             = T_GEOMETRY

\* the destination relationships of an entity on a column
DestinationsOn(esri_schema, col_name) ==
    {j \in 1..Len(esri_schema.relationships) :
        /\ esri_schema.relationships[j].role = "esriRelRoleDestination"
        /\ esri_schema.relationships[j].keyField = col_name}
\* the entities up to the n-th of the pass that recorded relationships under
\* a table id
Recorded(n, table_id) ==
    {m \in 1..n : has_relationships(PassOrder[m]) /\ PassOrder[m].id = table_id}
\* the origin relationships of an entity with the table of an id
OriginsWith(esri_schema, table_id) ==
    {k \in 1..Len(esri_schema.relationships) :
        /\ esri_schema.relationships[k].role = "esriRelRoleOrigin"
        /\ esri_schema.relationships[k].relatedTableId = table_id}
\* a foreign key that no relationship gave: none, or the one of a domain
NotFromRelationship(foreign_key) == foreign_key = <<>> \/ foreign_key[2] = C_code
\* the n-th entity of the pass has a destination relationship on one of its
\* columns whose origin table no entity up to it recorded
Unresolved(n) ==
    \E i \in 1..Len(PassOrder[n].fields) :
        \E j \in DestinationsOn(PassOrder[n], PassOrder[n].fields[i].name) :
            Recorded(n, PassOrder[n].relationships[j].relatedTableId) = {}

\* C15: a destination relationship on a column becomes a foreign key only
\* to the table and key column of an origin relationship that an entity
\* translated earlier in the pass, or the entity itself, recorded for this
\* table; an entity with a destination relationship on a column whose origin
\* table is not recorded is never translated: process_layer_table raises
\* IndexError on it.
C15_DestinationResolvesAgainstAccumulator ==
    /\ \A n \in Translations : ~Unresolved(n)
    /\ \A n \in Translations : \A i \in 1..Len(PassOrder[n].fields) :
           \/ NotFromRelationship(MainTable(TranslatedSoFar[n]).columns[i].foreign_key)
           \/ \E j \in DestinationsOn(PassOrder[n], PassOrder[n].fields[i].name) :
                  \E m \in Recorded(n, PassOrder[n].relationships[j].relatedTableId) :
                      \E k \in OriginsWith(PassOrder[m], PassOrder[n].id) :
                          MainTable(TranslatedSoFar[n]).columns[i].foreign_key
                              = <<PassOrder[m].name, PassOrder[m].relationships[k].keyField>>
    /\ (cud_status = "IndexError" /\ geometry_type(Failed.geometryType) # None) =>
           Unresolved(Len(TranslatedSoFar) + 1)

\* The table of a schema file is the destination of a relationship whose
\* origin is the layer translated before it, and update_database is called
\* with the foreign key in place.
C15_Witness ==
    /\ cud_status = "update_database"
    /\ Len(cud_layers) = 1 /\ Len(cud_tables) = 1
    /\ \E i \in 1..Len(PassOrder[2].fields) :
           /\ DestinationsOn(PassOrder[2], PassOrder[2].fields[i].name) # {}
           /\ MainTable(TranslatedSoFar[2]).columns[i].foreign_key
                  = <<PassOrder[1].name, C_objectid>>

\* C16: process_layer_table does not raise on an entity that declares no
\* relationships (the key absent, or an empty array), and translates it into
\* a table with one column per field, plus the geometry column, and no
\* foreign key from a relationship.
C16_NoRelationshipsTranslates ==
    /\ TranslationRaised => has_relationships(Failed)
    /\ \A n \in Translations :
           ~has_relationships(PassOrder[n]) =>
               /\ Len(MainTable(TranslatedSoFar[n]).columns)
                      = Len(PassOrder[n].fields) + Cardinality(SpatialColumns(TranslatedSoFar[n]))
               /\ \A i \in 1..Len(PassOrder[n].fields) :
                      /\ MainTable(TranslatedSoFar[n]).columns[i].name
                             = PassOrder[n].fields[i].name
                      /\ NotFromRelationship(
                             MainTable(TranslatedSoFar[n]).columns[i].foreign_key)

\* C17: once every entity of a schema file that has only a layers array or
\* only a tables array is translated, create_update_database calls
\* update_database with the translated entities of that array.
C17_OneArrayReachesUpdateDatabase ==
    (/\ schema_data.has_layers # schema_data.has_tables
     /\ cud_status \notin {"idle", "translating"}
     /\ ~TranslationRaised) =>
        /\ cud_status = "update_database"
        /\ cud_schema = TranslatedSoFar

\* The pass of the row loop over the row ld_pos
RowStep ==
    /\ ld_status = "rows"
    /\ ld_pos <= Len(ld_rows)
    /\ (ld_pos' # ld_pos \/ ld_status' # ld_status)

\* process_esri_row looks the geometry up before it looks at the row, and
\* without force the failure of the lookup ends the load, whatever the row
LookupEndsLoad ==
    /\ ld_opts.loader \in Esri
    /\ ~ld_opts.force
    /\ get_col_info(ld_conn, ld_rows[ld_pos].pt # <<>>, ld_opts.geometry_epsg).out # "ok"

ExistenceQueries == {"check_data_exists_pk", "check_data_exists"}
Writes == {"INSERT", "UPDATE"}

\* The statements of the log executed for the row k of the sheet ld_sheet
StatementsOf(lg, k) ==
    {lg[i].stmt : i \in {j \in 1..Len(lg) : lg[j].sheet = ld_sheet /\ lg[j].row = k}}

RowGeomInfo ==
    IF ld_opts.loader \in Esri
    THEN LET info == get_col_info(ld_conn, ld_rows[ld_pos].pt # <<>>,
                                  ld_opts.geometry_epsg)
         IN  IF info.out = "ok" THEN info.ret ELSE NoGeomInfo
    ELSE ld_geom_col_info

\* The loaders of data_xfer_excel
DataXfer == {"process_sheet"} \cup Esri

\* A row with the primary key of the row ld_pos is in the table
KeyExists == \E i \in 1..Len(ld_conn.table) : ld_conn.table[i].id = ld_rows[ld_pos].id

\* The full-column comparison of the row ld_pos reports a change
ReportsChange == ~row_data_exists(ld_conn.table, ld_rows[ld_pos], RowGeomInfo, FALSE)

\* C19: in process_sheet and process_esri_row, a row with a non-null primary
\* key that is reconciled (no exception ended the load at it) is written iff
\* no row with its key is in the table, or force is set and the full-column
\* comparison reports a change; the write is one statement, an UPDATE iff a
\* row with the key was there and an INSERT otherwise, and it is tallied as
\* added/updated, every other row as skipped.  A row whose key is in the
\* table is never written without force, exception or not.
C19_WriteDecision ==
    [][(RowStep /\ ld_opts.loader \in DataXfer /\ ld_rows[ld_pos].id # NoneInt)
        => LET written == StatementsOf(ld_log', ld_pos) \cap Writes
           IN  /\ ld_status' = "rows" =>
                     /\ written # {} <=> (~KeyExists \/ (ld_opts.force /\ ReportsChange))
                     /\ written # {} => written = {IF KeyExists THEN "UPDATE" ELSE "INSERT"}
                     /\ added_updated_rows' =
                            added_updated_rows + (IF written # {} THEN 1 ELSE 0)
                     /\ skipped_rows' = skipped_rows + (IF written # {} THEN 0 ELSE 1)
               /\ (KeyExists /\ ~ld_opts.force) =>
                     /\ written = {}
                     /\ ld_conn'.table = ld_conn.table]_vars

\* Under force a row that differs from the stored row of its key was
\* updated and a row with a new key inserted; the table holds both.
C19_Witness ==
    /\ ld_opts.loader \in DataXfer
    /\ ld_opts.force
    /\ ld_pos = 3
    /\ StatementsOf(ld_log, 1) \cap Writes = {"UPDATE"}
    /\ StatementsOf(ld_log, 2) \cap Writes = {"INSERT"}
    /\ Len(ld_conn.table) = 2
    /\ added_updated_rows = 2

\* The row ld_pos is the row before it once more, and that row was inserted
Resubmitted ==
    /\ ld_pos > 1
    /\ ld_rows[ld_pos] = ld_rows[ld_pos - 1]
    /\ "INSERT" \in StatementsOf(ld_log, ld_pos - 1)

\* C20: round trip of process_sheet and process_esri_row under force: once a
\* row has been inserted, check_data_exists_pk is true of its key, and the
\* same row submitted again is skipped as unchanged: no INSERT, no UPDATE,
\* the table as it was and one more skipped row, with and without a
\* geometry column.
C20_InsertThenResubmit ==
    [][(RowStep /\ ld_opts.loader \in DataXfer /\ ld_opts.force /\ Resubmitted)
        => /\ check_data_exists_pk(ld_conn.table, ld_rows[ld_pos].id)
           /\ StatementsOf(ld_log', ld_pos) \cap Writes = {}
           /\ ld_conn'.table = ld_conn.table
           /\ skipped_rows' = skipped_rows + 1]_vars

\* The positions of the log with a statement of stmts for the sheet
Positions(sheet, stmts) ==
    {i \in 1..Len(ld_log) : ld_log[i].sheet = sheet /\ ld_log[i].stmt \in stmts}

Precede(earlier, later) == \A i \in earlier, j \in later : i < j

\* The constraints the statements stmts of the sheet were executed on
ConstraintsOf(sheet, stmts) == {ld_log[i].cons : i \in Positions(sheet, stmts)}

\* The statements of the rows of the sheet
RowStatements(sheet) ==
    {i \in 1..Len(ld_log) : ld_log[i].sheet = sheet /\ ld_log[i].row > 0}

\* The statements of a reset of the sheet come in the order of the claim
ResetOrdered(sheet) ==
    /\ Precede(Positions(sheet, {"SELECT KEY_COLUMN_USAGE"}),
               Positions(sheet, {"DROP FOREIGN KEY", "TRUNCATE TABLE"}))
    /\ Precede(Positions(sheet, {"DROP FOREIGN KEY"}),
               Positions(sheet, {"TRUNCATE TABLE"}))
    /\ Precede(Positions(sheet, {"TRUNCATE TABLE"}), RowStatements(sheet))
    /\ Precede(RowStatements(sheet), Positions(sheet, {"ADD FOREIGN KEY"}))
    /\ ConstraintsOf(sheet, {"ADD FOREIGN KEY"})
           \subseteq ConstraintsOf(sheet, {"DROP FOREIGN KEY"})

\* The names of the constraints that reference the table
Referencing == {ld_conn.fks[i].name : i \in 1..Len(ld_conn.fks)}

\* The load has left the sheet ld_sheet, by its end or by an exception
SheetEnded == ld_status \in {"loaded", "committed", "ValueError", "DatabaseError"}

\* C21: a reset of the table executes, for every sheet or table loaded, the
\* SELECT of the constraints that reference the table, then one DROP FOREIGN
\* KEY for each, then the TRUNCATE, then the statements of the rows, then one
\* ADD FOREIGN KEY for each constraint dropped: no constraint references the
\* table while its rows are loaded, none is added back before the last row
\* statement, and when the load has left the sheet every constraint dropped
\* for it has had its ADD FOREIGN KEY.
C21_ResetSequence ==
    ld_opts.reset =>
        /\ \A sheet \in 1..ld_sheet : ResetOrdered(sheet)
        /\ ld_status = "rows" =>
              /\ Positions(ld_sheet, {"TRUNCATE TABLE"}) # {}
              /\ Referencing = {}
        /\ \A sheet \in 1..ld_sheet :
              (sheet < ld_sheet \/ SheetEnded) =>
                  ConstraintsOf(sheet, {"ADD FOREIGN KEY"})
                      = ConstraintsOf(sheet, {"DROP FOREIGN KEY"})

\* The constraints as they were declared before any load
Declared == {FkSingle, FkSecond, FkComposite}

\* The constraints that reference the table now
ReferencingFks == {ld_conn.fks[i] : i \in 1..Len(ld_conn.fks)}

\* C22: capture and restore of the foreign keys that reference the table is
\* a round trip: once the load has left the sheet, every constraint for
\* which ADD FOREIGN KEY was executed references the table again with the
\* table, the constrained columns and the referenced columns it was declared
\* with, those of a composite constraint paired in ordinal order.
C22_CaptureRestoreRoundTrip ==
    (ld_opts.reset /\ SheetEnded) =>
        \A n \in ConstraintsOf(ld_sheet, {"ADD FOREIGN KEY"}) :
            \E fk \in ReferencingFks \cap Declared : fk.name = n

\* C23: foreign keys dropped for a reset are restored before the processing
\* of the table ends, also when a row of the batch raises ValueError: once a
\* load with reset has been ended by a ValueError, in any of the three row
\* loops, ADD FOREIGN KEY has been executed for every dropped constraint.
C23_RestoredAfterValueError ==
    (ld_opts.reset /\ ld_status = "ValueError") =>
        ConstraintsOf(ld_sheet, {"DROP FOREIGN KEY"})
            \subseteq ConstraintsOf(ld_sheet, {"ADD FOREIGN KEY"})

\* The places of the commits among the statements of the load
Commits == {i \in 1..Len(ld_log) : ld_log[i].stmt = "COMMIT"}

\* C24: the statements of the reconciler hold no commit; the caller commits
\* once at most, after every row of every sheet or table has been processed,
\* so the commit is the last statement of the load and none lies between
\* two row writes.
C24_OneCommitAfterAllRows ==
    /\ Cardinality(Commits) <= 1
    /\ \A i \in Commits :
        /\ i = Len(ld_log)
        /\ ld_log[i].row = 0
        /\ ld_sheet = ld_worksheets
        /\ ld_pos > Len(ld_rows)

\* The call was handed an even, non-empty number of coordinate values
EvenPairs == Len(fn_args.values) > 0 /\ Len(fn_args.values) % 2 = 0

\* C25: transform_points returns the values unchanged when the two EPSG
\* codes are equal and the values are X,Y pairs, whether or not the
\* projection library is installed, and raises ValueError for an odd or
\* empty number of values.
C25_TransformIdentity ==
    fn_name = "transform_points" =>
        /\ (~EvenPairs => fn_ret = Raised("ValueError"))
        /\ (EvenPairs /\ fn_args.from_epsg = fn_args.to_epsg
                => fn_ret = Returned(fn_args.values))

\* The raw coordinates pt of a sheet row, reprojected once from the EPSG of
\* the sheet to the EPSG of the database
ReprojectedOnce(pt) ==
    <<Reproject(ld_opts.geometry_epsg, ld_conn.epsg, pt[1]),
      Reproject(ld_opts.geometry_epsg, ld_conn.epsg, pt[2]),
      ld_conn.epsg>>

\* C26: in process_sheet the write of a row with a geometry column stores
\* what the full-column comparison compares, the raw coordinates of the row
\* bound to the constructor fragment of the sheet, and the stored
\* coordinates are the raw coordinates reprojected exactly once.
C26_SameGeometryConstruction ==
    [][(/\ RowStep
        /\ ld_opts.loader = "process_sheet"
        /\ ld_geom_col_info.found
        /\ ld_status' = "rows"
        /\ StatementsOf(ld_log', ld_pos) \cap Writes # {})
        => \A i \in 1..Len(ld_conn'.table) :
              ld_conn'.table[i].id = ld_rows[ld_pos].id =>
                  /\ ld_conn'.table[i].g = col_sql(ld_geom_col_info, ld_rows[ld_pos].pt)
                  /\ ld_conn'.table[i].g = ReprojectedOnce(ld_rows[ld_pos].pt)]_vars

\* The aliases of the call
AliasNames == {a.alias : a \in fn_args.col_alias}

\* The column of the table that a name of the sheet or of a statement denotes
DbColumn(name) ==
    IF name \in AliasNames THEN aliased(fn_args.col_alias, name) ELSE lower(name)

\* The value the row gives for the column a statement names
SheetValue(col) ==
    LET at == {k \in 1..Len(fn_args.sheet.col_names) :
                  DbColumn(fn_args.sheet.col_names[k]) = DbColumn(col)}
    IN  IF at = {} THEN NoneInt ELSE fn_args.sheet.col_values[CHOOSE k \in at : TRUE]

\* The values the placeholders of the columns k.. of a statement stand for:
\* the value of the column, or the coordinates for the geometry fragment
RECURSIVE Bound(_, _)
Bound(q, k) ==
    IF k > Len(q.cols) THEN <<>>
    ELSE (IF q.types[k] = "%s" THEN <<SheetValue(q.cols[k])>>
          ELSE <<SheetValue(<<"x">>), SheetValue(<<"y">>)>>)
         \o Bound(q, k + 1)

RECURSIVE Placeholders(_, _)
Placeholders(q, k) ==
    IF k > Len(q.cols) THEN (IF q.where = <<>> THEN 0 ELSE 1)
    ELSE (IF q.types[k] = "%s" THEN 1 ELSE 2) + Placeholders(q, k + 1)

\* C27: the UPDATE of add_update_data leaves the primary-key column out of
\* the SET list, binds as many values as it has placeholders, each SET
\* placeholder to the value of its own column (the geometry fragment to the
\* coordinates), and the primary-key value last; with and without a geometry
\* column, with and without aliases.
C27_UpdateStatement ==
    (fn_name = "add_update_data" /\ fn_args.update) =>
        /\ fn_ret.out = "ok"
        /\ fn_ret.ret.kind = "UPDATE"
        /\ \A k \in 1..Len(fn_ret.ret.cols) : DbColumn(fn_ret.ret.cols[k]) # <<"i", "d">>
        /\ Len(fn_ret.ret.values) = Placeholders(fn_ret.ret, 1)
        /\ fn_ret.ret.values = Append(Bound(fn_ret.ret, 1), SheetValue(<<"i", "d">>))

\* The headers of the sheet that the statement of the call is built from
NamedHeaders ==
    IF fn_name = "check_data_exists" /\ fn_args.by_key THEN {fn_args.sheet.primary_key}
    ELSE {fn_args.sheet.col_names[k] : k \in 1..Len(fn_args.sheet.col_names)}

\* C28: when a column of the row goes by an alias of the alias mapping,
\* neither check_data_exists nor add_update_data fails, the statement names
\* the column of the database and not the alias, and the value bound for it
\* is the value the row gives under the alias.
C28_AliasedColumns ==
    (fn_name # "" /\ NamedHeaders \cap AliasNames # {}) =>
        /\ fn_ret.out = "ok"
        /\ \A k \in 1..Len(fn_ret.ret.cols) : fn_ret.ret.cols[k] \notin AliasNames
        /\ fn_ret.ret.where \notin AliasNames
        /\ fn_ret.ret.values =
               Bound(fn_ret.ret, 1)
               \o (IF fn_ret.ret.where = <<>> THEN <<>> ELSE <<SheetValue(<<"i", "d">>)>>)

\* The foreign keys the tables of the schema declare
DeclaredFks ==
    UNION {UNION {created_fks(_sqlstr(schema[s].tables[t].name),
                              schema[s].tables[t].columns) :
                      t \in 1..Len(schema[s].tables)} :
               s \in 1..Len(schema)}

\* C29: at the end of a run of create_db with force, every foreign key that
\* the translated tables declare exists in the database; none dropped with
\* the table it references is left missing.
C29_ForeignKeysAfterForcedRun ==
    (run_status = "done" /\ opts.force /\ ~opts.readonly) => DeclaredFks \subseteq db.fks

\* C30: a load never leaves two rows with one primary-key value in the
\* table: whatever the rows, force and reset, and whichever loader, the
\* table holds at most one row for each primary-key value.
C30_NoDuplicateKeys ==
    \A i, j \in 1..Len(ld_conn.table) :
        ld_conn.table[i].id = ld_conn.table[j].id => i = j

\* A key was inserted and then submitted again with another value, under
\* force: the second row updated the first, and the table holds one row
C30_Witness ==
    /\ ld_pos = 3
    /\ ld_opts.force
    /\ ld_rows[1].id = ld_rows[2].id
    /\ ld_rows[1].v # ld_rows[2].v
    /\ "INSERT" \in StatementsOf(ld_log, 1)
    /\ "UPDATE" \in StatementsOf(ld_log, 2)
    /\ Len(ld_conn.table) = 1
    /\ ld_conn.table[1].id = ld_rows[2].id
    /\ ld_conn.table[1].v = ld_rows[2].v

====
